---- MODULE Spec2Model ----
(***************************************************************************)
(* Model of soliloquy's staged multi-package pipeline: target discovery,   *)
(* aggregator classification, the per-item test / build / publish loops,   *)
(* the Git-dependency clone area and the validate / release phases.        *)
(*                                                                         *)
(* Every operation of the program is synchronous and single-threaded, so   *)
(* one operation is one action.  The external commands an operation runs   *)
(* are recorded, in order, in the history variable `cmds`.  The exit code  *)
(* of a process is the environment's choice: an operator that spawns       *)
(* processes denotes the SET of results it can produce, one per choice of  *)
(* exit codes, and the action picks one of them.                           *)
(***************************************************************************)
EXTENDS Integers, Sequences, FiniteSets, TLC

VARIABLES
    op,         \* the operation invoked on this run
    pc,         \* "start" | "returned" | "exit1" | "raised" | "again" |
                \* "streaming"
    args,       \* the arguments of the operation
    manifest,   \* content of repo/pyproject.toml
    cmds,       \* history: external commands and temp-dir events, in order
    fs,         \* temporary paths that exist on disk (clone area); after a
                \* version bump, the version each manifest holds
    ret,        \* the operation's return value
    readers     \* the two reader threads of a streaming run_command

vars == <<op, pc, args, manifest, cmds, fs, ret, readers>>

(***************************************************************************)
(* Bounds                                                                  *)
(***************************************************************************)
MaxPathDeps == 3
MaxGitDeps == 2
\* Version components run over 0..MaxPart, development numbers over 0..MaxDev.
MaxPart == 1
MaxDev == 1
\* Threshold strings hold at most MaxThresholdLen tokens.
MaxThresholdLen == 3
\* A chain of bumps has at most MaxBumps links.
MaxBumps == 3
\* A process writes at most MaxLines lines on each of its streams.
MaxLines == 2

ExitCodes == {0, 1}

(***************************************************************************)
(* Python values.  A value carries its type, so that `x != 0` can be       *)
(* evaluated the way Python does when x is not an int.                     *)
(***************************************************************************)
None == [t |-> "None"]
PyInt(n) == [t |-> "int", v |-> n]
PyBool(b) == [t |-> "bool", v |-> b]
PyStr(s) == [t |-> "str", v |-> s]
PyTuple(s) == [t |-> "tuple", v |-> s]
PyRaise(exc) == [t |-> "raise", v |-> exc]

\* Python's `a != b` for the value types above: values of different types
\* are never equal.
PyNe(a, b) ==
    IF a.t # b.t THEN TRUE
    ELSE IF a.t = "None" THEN FALSE
    ELSE a.v # b.v

\* dict.get(key, default) for an optional field.
GetOr(val, default) == IF val = None THEN default ELSE val.v

(***************************************************************************)
(* Paths are sequences of components.  Strings that the code edits         *)
(* (branch names, sub-directory strings) are sequences of tokens in which  *)
(* "/" is a token of its own.                                              *)
(***************************************************************************)
ManifestName == "pyproject.toml"
RepoDir == <<"repo">>

Join(a, b) == a \o b
Dirname(p) == SubSeq(p, 1, Len(p) - 1)
IsNotDot(c) == c # "."
AbsPath(p) == SelectSeq(p, IsNotDot)
IsNotSlash(c) == c # "/"
\* str.split("/") on a token sequence: the components between the slashes.
SplitSlash(s) == SelectSeq(s, IsNotSlash)
\* str.replace("/", "-")
ReplaceSlash(s) == [i \in 1..Len(s) |-> IF s[i] = "/" THEN "-" ELSE s[i]]

IsPrefix(a, b) == Len(a) <= Len(b) /\ SubSeq(b, 1, Len(a)) = a

(***************************************************************************)
(* The working tree.  repo/ holds the primary manifest; pkg_a and pkg_b    *)
(* are leaf packages, sub_agg holds an aggregator manifest, nomf is a      *)
(* directory without a manifest and repo/gone does not exist.              *)
(***************************************************************************)
StaticDirs ==
    { RepoDir, <<"repo", "nomf">>, <<"repo", "pkg_a">>, <<"repo", "pkg_b">>,
      <<"repo", "sub_agg">> }
StaticManifestDirs ==
    { RepoDir, <<"repo", "pkg_a">>, <<"repo", "pkg_b">>, <<"repo", "sub_agg">> }
\* os.walk order of the working tree (top-down)
WalkOrder ==
    << RepoDir, <<"repo", "nomf">>, <<"repo", "pkg_a">>, <<"repo", "pkg_b">>,
       <<"repo", "sub_agg">> >>

\* What a clone of any of the remote repositories contains.
RepoTreeDirs == { <<>>, <<"pkgs">>, <<"pkgs", "x">>, <<"docs">> }
RepoTreeManifestDirs == { <<>>, <<"pkgs", "x">> }

IsManifestPath(p) == Len(p) > 0 /\ p[Len(p)] = ManifestName
IsDir(tmp, p) ==
    \/ AbsPath(p) \in StaticDirs
    \/ AbsPath(p) \in tmp /\ ~IsManifestPath(p)
IsFile(tmp, p) ==
    /\ IsManifestPath(p)
    /\ \/ Dirname(AbsPath(p)) \in StaticManifestDirs
       \/ AbsPath(p) \in tmp

(***************************************************************************)
(* Manifests.  The primary manifest is the variable `manifest`; the other  *)
(* manifests of the working tree are fixed.                                *)
(***************************************************************************)
LeafManifest == [package_mode |-> None, path_deps |-> <<>>, git_deps |-> <<>>]
SubAggManifest ==
    [package_mode |-> PyBool(FALSE), path_deps |-> <<>>, git_deps |-> <<>>]

ReadManifest(m, pyproj_path) ==
    IF Dirname(pyproj_path) = RepoDir THEN m
    ELSE IF Dirname(pyproj_path) = <<"repo", "sub_agg">> THEN SubAggManifest
    ELSE LeafManifest

extract_path_dependencies(m, pyproj_path) == ReadManifest(m, pyproj_path).path_deps
extract_git_dependencies(m, pyproj_path) == ReadManifest(m, pyproj_path).git_deps

LowerChar(c) ==
    CASE c = "F" -> "f" [] c = "A" -> "a" [] c = "L" -> "l" [] c = "S" -> "s"
      [] c = "E" -> "e" [] c = "T" -> "t" [] c = "R" -> "r" [] c = "U" -> "u"
      [] OTHER -> c
Lower(s) == [i \in 1..Len(s) |-> LowerChar(s[i])]
StrFalse == <<"f", "a", "l", "s", "e">>

\* A classifier that compares the string as it is written.
IsAggregatorModeCaseSensitive(package_mode) ==
    LET pkg_mode == IF package_mode = None THEN PyBool(TRUE) ELSE package_mode
        as_bool == IF pkg_mode.t = "str"
                   THEN PyBool(pkg_mode.v # StrFalse)
                   ELSE pkg_mode
    IN  as_bool.t = "bool" /\ as_bool.v = FALSE

\* _check_if_aggregator: package-mode False, or a string that lower-cases to
\* "false".
IsAggregatorMode(package_mode) ==
    LET pkg_mode == IF package_mode = None THEN PyBool(TRUE) ELSE package_mode
        as_bool == IF pkg_mode.t = "str"
                   THEN PyBool(Lower(pkg_mode.v) # StrFalse)
                   ELSE pkg_mode
    IN  as_bool.t = "bool" /\ as_bool.v = FALSE

\* The pair that _check_if_aggregator returns for a [tool.poetry] table:
\* (is_aggregator, tool_poetry.get("name", "unknown")).
StrUnknown == <<"u", "n", "k", "n", "o", "w", "n">>
aggregator_and_name(tool_poetry) ==
    PyTuple(<<PyBool(IsAggregatorMode(tool_poetry.package_mode)),
              IF tool_poetry.name = None THEN PyStr(StrUnknown) ELSE tool_poetry.name>>)

check_if_aggregator(m, pyproj_path) ==
    IsAggregatorMode(ReadManifest(m, pyproj_path).package_mode)

(***************************************************************************)
(* find_pyproject_files                                                    *)
(***************************************************************************)
HasManifestUnder(dir_path, d) == IsPrefix(dir_path, d) /\ d \in StaticManifestDirs

FoundFiles(dirs) == [i \in 1..Len(dirs) |-> Join(dirs[i], <<ManifestName>>)]

\* A resolver that names the manifest of a directory without looking for it.
FindWithoutFileCheck(file, directory, recursive) ==
    IF file # None THEN
        IF ~IsFile({}, AbsPath(file.v))
        THEN [ok |-> FALSE, exc |-> "FileNotFoundError", files |-> <<>>]
        ELSE [ok |-> TRUE, exc |-> "", files |-> <<AbsPath(file.v)>>]
    ELSE IF directory # None THEN
        LET dir_path == AbsPath(directory.v) IN
        IF ~IsDir({}, dir_path)
        THEN [ok |-> FALSE, exc |-> "NotADirectoryError", files |-> <<>>]
        ELSE IF recursive THEN
            LET Under(d) == HasManifestUnder(dir_path, d)
                matched == FoundFiles(SelectSeq(WalkOrder, Under))
            IN  IF matched = <<>>
                THEN [ok |-> FALSE, exc |-> "FileNotFoundError", files |-> <<>>]
                ELSE [ok |-> TRUE, exc |-> "", files |-> matched]
        ELSE [ok |-> TRUE, exc |-> "",
              files |-> <<Join(dir_path, <<ManifestName>>)>>]
    ELSE [ok |-> FALSE, exc |-> "ValueError", files |-> <<>>]

find_pyproject_files(file, directory, recursive) ==
    IF file # None THEN
        IF ~IsFile({}, AbsPath(file.v))
        THEN [ok |-> FALSE, exc |-> "FileNotFoundError", files |-> <<>>]
        ELSE [ok |-> TRUE, exc |-> "", files |-> <<AbsPath(file.v)>>]
    ELSE IF directory # None THEN
        LET dir_path == AbsPath(directory.v) IN
        IF ~IsDir({}, dir_path)
        THEN [ok |-> FALSE, exc |-> "NotADirectoryError", files |-> <<>>]
        ELSE IF recursive THEN
            LET Under(d) == HasManifestUnder(dir_path, d)
                matched == FoundFiles(SelectSeq(WalkOrder, Under))
            IN  IF matched = <<>>
                THEN [ok |-> FALSE, exc |-> "FileNotFoundError", files |-> <<>>]
                ELSE [ok |-> TRUE, exc |-> "", files |-> matched]
        ELSE
            LET single == Join(dir_path, <<ManifestName>>) IN
            IF ~IsFile({}, single)
            THEN [ok |-> FALSE, exc |-> "FileNotFoundError", files |-> <<>>]
            ELSE [ok |-> TRUE, exc |-> "", files |-> <<single>>]
    ELSE [ok |-> FALSE, exc |-> "ValueError", files |-> <<>>]

(***************************************************************************)
(* Running processes.  An execution state s carries the history and the    *)
(* temporary paths on disk.                                                *)
(***************************************************************************)
InitExec == [cmds |-> <<>>, tmp |-> {}]

Event(kind, cwd, rc, arg) == [kind |-> kind, cwd |-> cwd, rc |-> rc, arg |-> arg]

\* subprocess.run(cmd, cwd=cwd) of a process that exits with rc.
Spawn(s, kind, cwd, arg, rc) ==
    [s EXCEPT !.cmds = Append(@, Event(kind, cwd, rc, arg))]

LastRc(s) == s.cmds[Len(s.cmds)].rc

\* ops/poetry_utils.run_command returns the tuple (returncode, stdout, stderr).
run_command_result(s) == PyTuple(<<LastRc(s), "stdout", "stderr">>)

\* ---- ops/poetry_utils.run_command itself ----
\* An argument is a text cut into pieces; "pypi-" is one piece.
startswith(arg, prefix) == Len(arg) > 0 /\ arg[1] = prefix
Mask == <<"pypi-", "****">>

\* A command line printed as it is.
UnmaskedCmd(cmd) == cmd

\* safe_cmd: the command as it is printed.
safe_cmd(cmd) ==
    [i \in DOMAIN cmd |-> IF startswith(cmd[i], "pypi-") THEN Mask ELSE cmd[i]]

\* print(f"[poetry_utils] Running command: ...") followed by the start of
\* the process with the command as given, which exits with rc.
LogAndSpawn(s, cmd, cwd, rc) ==
    Spawn([s EXCEPT !.cmds = Append(@, Event("log", cwd, 0, safe_cmd(cmd)))],
          "process", cwd, cmd, rc)

\* sys.stdout.write(line, end='') and sys.stderr.write(line, end=''):
\* write() takes no keyword arguments.
print_func(line) == PyRaise("TypeError: write() takes no keyword arguments")

\* A reader thread: the lines read so far, its queue, and where it is.
NoReaders == [t |-> "None"]
NewReader == [pos |-> 0, q |-> <<>>, at |-> "running"]
\* One turn of `for line in iter(pipe.readline, '')`: the end of the
\* stream ends the loop; a line is printed and, if that returns, queued.
\* `finally: pipe.close()` runs either way.
stream_reader(th, emitted) ==
    IF th.pos = Len(emitted) THEN [th EXCEPT !.at = "eof"]
    ELSE LET line == emitted[th.pos + 1]
         IN  IF print_func(line).t = "raise"
             THEN [th EXCEPT !.pos = @ + 1, !.at = "raised"]
             ELSE [th EXCEPT !.pos = @ + 1, !.q = Append(@, line)]

\* run_pytests calls subprocess.run itself and reads proc.returncode.
run_pytests(s, test_directory, rc) == Spawn(s, "pytest", test_directory, <<>>, rc)
PytestResult(s, test_directory) ==
    [success |-> (LastRc(s) = 0), returncode |-> LastRc(s),
     directory |-> test_directory]

\* A `for item in items` loop whose body has several possible results: the
\* set of accumulators after the items from the i-th on, starting from any
\* accumulator of T.
RECURSIVE ForEach(_, _, _, _)
ForEach(Body(_, _), items, i, T) ==
    IF i > Len(items) THEN T
    ELSE ForEach(Body, items, i + 1, UNION {Body(items[i], t) : t \in T})

\* r = run_pytests(dir); details.append(r); if not r["success"]: all_passed = False
RecordTest(t, test_directory, rc) ==
    LET s2 == run_pytests(t.s, test_directory, rc)
        r == PytestResult(s2, test_directory)
    IN  [s |-> s2, details |-> Append(t.details, r),
         all_passed |-> t.all_passed /\ r.success]

(***************************************************************************)
(* run_tests_with_mode, mode "each": the loop over local path dependencies *)
(* An accumulator t carries the execution state, `details` and             *)
(* `all_passed`.                                                           *)
(***************************************************************************)
\* One iteration of `for dep_rel_path in deps`.
TestPathDepFailFast(dep_rel_path, base_dir, t) ==
    LET subpkg_path == Join(base_dir, dep_rel_path) IN
    IF ~t.all_passed \/ ~IsDir(t.s.tmp, subpkg_path)
    THEN {[t EXCEPT !.all_passed = FALSE]}
    ELSE {RecordTest(t, subpkg_path, rc) : rc \in ExitCodes}

TestPathDep(dep_rel_path, base_dir, t) ==
    LET subpkg_path == Join(base_dir, dep_rel_path) IN
    IF ~IsDir(t.s.tmp, subpkg_path)
    THEN {[t EXCEPT !.all_passed = FALSE]}
    ELSE {RecordTest(t, subpkg_path, rc) : rc \in ExitCodes}

TestPathDeps(deps, base_dir, t0) ==
    ForEach(LAMBDA dep, t : TestPathDep(dep, base_dir, t), deps, 1, {t0})

(***************************************************************************)
(* _test_git_deps                                                          *)
(***************************************************************************)
MainBranch == <<"main">>
DotSubdir == <<".">>
TestRoot == <<"tmp", "mono_test_">>
CloneSuffix == "_clone"

\* The key a Git dependency is grouped under.
GroupKeyPerSubdir(config) ==
    <<config.git, GetOr(config.branch, MainBranch),
      GetOr(config.subdirectory, DotSubdir)>>

GroupKey(config) == <<config.git, GetOr(config.branch, MainBranch)>>

KeyIndex(grouped, key) ==
    LET hits == {k \in 1..Len(grouped) : grouped[k].key = key}
    IN  IF hits = {} THEN 0 ELSE CHOOSE k \in hits : TRUE

\* grouped[(git_url, branch)].append((dep_name, subdir)), in the dict's
\* insertion order; a dependency is named by its position in the table.
RECURSIVE GroupGitDeps(_, _, _)
GroupGitDeps(git_deps, i, grouped) ==
    IF i > Len(git_deps) THEN grouped
    ELSE LET key == GroupKey(git_deps[i])
             entry == [dep_name |-> i,
                       subdir |-> GetOr(git_deps[i].subdirectory, DotSubdir)]
             pos == KeyIndex(grouped, key)
         IN  GroupGitDeps(git_deps, i + 1,
                 IF pos = 0
                 THEN Append(grouped, [key |-> key, sub_pkgs |-> <<entry>>])
                 ELSE [grouped EXCEPT ![pos].sub_pkgs = Append(@, entry)])

\* clone_dir = os.path.join(build_root, branch.replace("/", "-") + "_clone");
\* the tokens of the directory name are kept as trailing components.
CloneDir(build_root, git_url, branch) ==
    Join(build_root, Append(ReplaceSlash(branch), CloneSuffix))

CloneContent(clone_dir) ==
    {Join(clone_dir, d) : d \in RepoTreeDirs}
      \cup {Join(clone_dir, Append(d, ManifestName)) : d \in RepoTreeManifestDirs}

\* `git clone --depth 1 --branch b url dir` through run_command.  git refuses
\* a destination that exists and is not empty (exit 128); on exit 0 the
\* clone's content is on disk.
GitCloneExit(s, git_url, branch, clone_dir, rc) ==
    [cmds |-> Append(s.cmds,
                     Event("git_clone", <<>>, rc, <<git_url, branch, clone_dir>>)),
     tmp |-> IF rc = 0 THEN s.tmp \cup CloneContent(clone_dir) ELSE s.tmp]

GitClone(s, git_url, branch, clone_dir) ==
    IF clone_dir \in s.tmp
    THEN {GitCloneExit(s, git_url, branch, clone_dir, 128)}
    ELSE {GitCloneExit(s, git_url, branch, clone_dir, rc) : rc \in ExitCodes}

\* One iteration of `for (dep_name, subdir) in sub_pkgs`.
TestSubPkg(entry, clone_dir, t) ==
    LET test_path == Join(clone_dir, SplitSlash(entry.subdir))
        pyproj_file == Join(test_path, <<ManifestName>>)
    IN  IF ~IsDir(t.s.tmp, test_path) THEN {[t EXCEPT !.all_passed = FALSE]}
        ELSE IF ~IsFile(t.s.tmp, pyproj_file)
        THEN {[t EXCEPT !.all_passed = FALSE]}
        ELSE {RecordTest(t, test_path, rc) : rc \in ExitCodes}

TestSubPkgs(sub_pkgs, clone_dir, t0) ==
    ForEach(LAMBDA entry, t : TestSubPkg(entry, clone_dir, t), sub_pkgs, 1, {t0})

\* After the clone: rc = run_command(clone_cmd) binds the whole result tuple,
\* and `if rc != 0` compares that tuple with 0.
AfterClone(group, clone_dir, t, s2) ==
    LET rc == run_command_result(s2) IN
    IF PyNe(rc, PyInt(0))
    THEN {[t EXCEPT !.s = s2, !.all_passed = FALSE]}
    ELSE TestSubPkgs(group.sub_pkgs, clone_dir, [t EXCEPT !.s = s2])

\* One iteration of `for (git_url, branch), sub_pkgs in grouped.items()`.
TestGitGroup(group, build_root, t) ==
    LET git_url == group.key[1]
        branch == group.key[2]
        clone_dir == CloneDir(build_root, git_url, branch)
    IN  UNION {AfterClone(group, clone_dir, t, s2) :
                 s2 \in GitClone(t.s, git_url, branch, clone_dir)}

TestGitGroups(grouped, build_root, t0) ==
    ForEach(LAMBDA group, t : TestGitGroup(group, build_root, t), grouped, 1, {t0})

Mkdtemp(s, root) ==
    [s EXCEPT !.cmds = Append(@, Event("mkdtemp", root, 0, <<>>)),
              !.tmp = @ \cup {root}]

\* shutil.rmtree(root, ignore_errors=True)
Rmtree(s, root) ==
    [s EXCEPT !.cmds = Append(@, Event("rmtree", root, 0, <<>>)),
              !.tmp = {p \in @ : ~IsPrefix(root, p)}]

\* A return that hands back None without removing the clone root.
GitDepsReturnLeavingRoot(t, build_root, cleanup) ==
    IF cleanup
    THEN [t |-> t, all_passed |-> t.all_passed, build_root |-> None]
    ELSE [t |-> t, all_passed |-> t.all_passed, build_root |-> PyStr(build_root)]

\* The `finally` block and the return: with cleanup the clone root is removed
\* and None is returned in its place.
GitDepsReturn(t, build_root, cleanup) ==
    IF cleanup
    THEN [t |-> [t EXCEPT !.s = Rmtree(t.s, build_root)],
          all_passed |-> t.all_passed, build_root |-> None]
    ELSE [t |-> t, all_passed |-> t.all_passed, build_root |-> PyStr(build_root)]

\* Each result carries the caller's accumulator (details are appended in
\* place), the function's own all_passed and the returned clone root.
test_git_deps(git_deps, t, cleanup) ==
    LET grouped == GroupGitDeps(git_deps, 1, <<>>) IN
    IF grouped = <<>> THEN {[t |-> t, all_passed |-> TRUE, build_root |-> None]}
    ELSE LET build_root == TestRoot
             t0 == [t EXCEPT !.s = Mkdtemp(t.s, build_root), !.all_passed = TRUE]
         IN  {GitDepsReturn(t1, build_root, cleanup) :
                 t1 \in TestGitGroups(grouped, build_root, t0)}

(***************************************************************************)
(* run_tests_with_mode                                                     *)
(***************************************************************************)
Modes == {"single", "monorepo", "each"}

TestReturn(s, success, details, git_temp_dir) ==
    [s |-> s,
     value |-> [success |-> success, details |-> details,
                git_temp_dir |-> git_temp_dir]]

\* if git_deps: git_ok, git_tmp_dir = _test_git_deps(...)
TestEachGit(git_deps, t1, cleanup) ==
    IF git_deps # <<>>
    THEN {TestReturn(g.t.s, t1.all_passed /\ g.all_passed, g.t.details,
                     g.build_root) : g \in test_git_deps(git_deps, t1, cleanup)}
    ELSE {TestReturn(t1.s, t1.all_passed, t1.details, None)}

\* The aggregator branch and the non-aggregator branch of mode "each" run the
\* same statements.
TestEach(m, primary_pyproj, s, cleanup) ==
    LET deps == extract_path_dependencies(m, primary_pyproj)
        base_dir == Dirname(primary_pyproj)
        git_deps == extract_git_dependencies(m, primary_pyproj)
        T1 == TestPathDeps(deps, base_dir,
                           [s |-> s, details |-> <<>>, all_passed |-> TRUE])
    IN  UNION {TestEachGit(git_deps, t1, cleanup) : t1 \in T1}

TestOnce(s, test_dir) ==
    {LET s2 == run_pytests(s, test_dir, rc)
         r == PytestResult(s2, test_dir)
     IN  TestReturn(s2, r.success, <<r>>, None) : rc \in ExitCodes}

run_tests_with_mode(m, a, s) ==
    IF a.mode \notin Modes THEN {TestReturn(s, FALSE, <<>>, None)}
    ELSE LET found == find_pyproject_files(a.file, a.directory, a.recursive) IN
    IF ~found.ok THEN {TestReturn(s, FALSE, <<>>, None)}
    ELSE LET primary_pyproj == found.files[1]
             aggregator == check_if_aggregator(m, primary_pyproj)
    IN  IF a.mode \in {"single", "monorepo"}
        THEN TestOnce(s, IF a.directory # None THEN a.directory.v
                         ELSE Dirname(primary_pyproj))
        ELSE TestEach(m, primary_pyproj, s, a.cleanup)

(***************************************************************************)
(* build_ops.build_packages.  An accumulator b carries the execution state *)
(* and the overall_success flag of the loop.                               *)
(***************************************************************************)
And(b, r) == [s |-> r.s, ok |-> b.ok /\ r.ok]
Fail(b) == {[b EXCEPT !.ok = FALSE]}

\* rc, out, err = run_command(...): the first component of the result tuple.
UnpackRc(result) == PyInt(result.v[1])

\* _run_poetry_build: `poetry build` in package_dir, True iff it exits 0.
run_poetry_build(s, package_dir) ==
    {LET s2 == Spawn(s, "poetry_build", package_dir, <<"build_ops">>, rc)
         rc_ == UnpackRc(run_command_result(s2))
     IN  [s |-> s2, ok |-> ~PyNe(rc_, PyInt(0))] : rc \in ExitCodes}

\* One iteration of the loop of _build_local_path_dependencies.
BuildPathDepFailFast(dep_rel_path, base_dir, b) ==
    LET dep_abs_path == Join(base_dir, dep_rel_path)
        dep_pyproj == Join(dep_abs_path, <<ManifestName>>)
    IN  IF ~b.ok \/ ~IsDir(b.s.tmp, dep_abs_path) \/ ~IsFile(b.s.tmp, dep_pyproj)
        THEN Fail(b)
        ELSE {And(b, r) : r \in run_poetry_build(b.s, dep_abs_path)}

BuildPathDep(dep_rel_path, base_dir, b) ==
    LET dep_abs_path == Join(base_dir, dep_rel_path)
        dep_pyproj == Join(dep_abs_path, <<ManifestName>>)
    IN  IF ~IsDir(b.s.tmp, dep_abs_path) \/ ~IsFile(b.s.tmp, dep_pyproj)
        THEN Fail(b)
        ELSE {And(b, r) : r \in run_poetry_build(b.s, dep_abs_path)}

build_local_path_dependencies(m, pyproj_path, s) ==
    LET deps == extract_path_dependencies(m, pyproj_path)
        base_dir == Dirname(pyproj_path)
    IN  IF deps = <<>> THEN {[s |-> s, ok |-> TRUE]}
        ELSE ForEach(LAMBDA dep, b : BuildPathDep(dep, base_dir, b), deps, 1,
                     {[s |-> s, ok |-> TRUE]})

\* One iteration of `for pyproj_path in pyprojects`.
BuildPyproject(m, pyproj_path, b) ==
    IF check_if_aggregator(m, pyproj_path)
    THEN {And(b, r) : r \in build_local_path_dependencies(m, pyproj_path, b.s)}
    ELSE {And(b, r) : r \in run_poetry_build(b.s, Dirname(pyproj_path))}

Returns(B) == {[s |-> b.s, value |-> b.ok] : b \in B}

build_packages(m, a, s) ==
    LET found == find_pyproject_files(a.file, a.directory, a.recursive) IN
    IF ~found.ok THEN {[s |-> s, value |-> FALSE]}
    ELSE Returns(ForEach(LAMBDA pyproj, b : BuildPyproject(m, pyproj, b),
                         found.files, 1, {[s |-> s, ok |-> TRUE]}))

(***************************************************************************)
(* publish_ops.publish_packages                                            *)
(***************************************************************************)
\* rc_publish = run_command(cmd, cwd=package_dir); if rc_publish != 0: the
\* whole result tuple is compared with 0.
PublishAfterBuild(s2, package_dir) ==
    {LET s3 == Spawn(s2, "poetry_publish", package_dir, <<"publish_ops">>, rc)
         rc_publish == run_command_result(s3)
     IN  [s |-> s3, ok |-> ~PyNe(rc_publish, PyInt(0))] : rc \in ExitCodes}

\* rc_build = run_command(["poetry", "build"], cwd=package_dir);
\* if rc_build != 0: return False -- again on the whole tuple.
BuildThenPublish(s2, package_dir) ==
    LET rc_build == run_command_result(s2) IN
    IF PyNe(rc_build, PyInt(0)) THEN {[s |-> s2, ok |-> FALSE]}
    ELSE PublishAfterBuild(s2, package_dir)

build_and_publish(s, pyproj_file) ==
    LET package_dir == Dirname(pyproj_file) IN
    UNION {BuildThenPublish(Spawn(s, "poetry_build", package_dir,
                                  <<"publish_ops">>, rc), package_dir) :
             rc \in ExitCodes}

\* One iteration of the loop of _publish_local_path_deps.
PublishPathDep(dep_rel, base_dir, b) ==
    LET dep_abs == Join(base_dir, dep_rel)
        pyproj == Join(dep_abs, <<ManifestName>>)
    IN  IF ~IsFile(b.s.tmp, pyproj) THEN Fail(b)
        ELSE {And(b, r) : r \in build_and_publish(b.s, pyproj)}

publish_local_path_deps(m, aggregator_pyproj, s) ==
    LET base_dir == Dirname(aggregator_pyproj)
        deps == extract_path_dependencies(m, aggregator_pyproj)
    IN  IF deps = <<>> THEN {[s |-> s, ok |-> TRUE]}
        ELSE ForEach(LAMBDA dep, b : PublishPathDep(dep, base_dir, b), deps, 1,
                     {[s |-> s, ok |-> TRUE]})

PublishPyproject(m, pyproj_path, b) ==
    IF check_if_aggregator(m, pyproj_path)
    THEN {And(b, r) : r \in publish_local_path_deps(m, pyproj_path, b.s)}
    ELSE {And(b, r) : r \in build_and_publish(b.s, pyproj_path)}

publish_packages(m, a, s) ==
    LET found == find_pyproject_files(a.file, a.directory, a.recursive) IN
    IF ~found.ok THEN {[s |-> s, value |-> FALSE]}
    ELSE Returns(ForEach(LAMBDA pyproj, b : PublishPyproject(m, pyproj, b),
                         found.files, 1, {[s |-> s, ok |-> TRUE]}))

(***************************************************************************)
(* lock_ops.lock_packages and install_ops.install_packages                 *)
(***************************************************************************)
\* _run_poetry_lock: rc = run_command(cmd, cwd=proj_dir); if rc != 0.
run_poetry_lock(s, pyproj_file) ==
    {LET s2 == Spawn(s, "poetry_lock", Dirname(pyproj_file), <<"lock_ops">>, rc)
         rc_ == run_command_result(s2)
     IN  [s |-> s2, ok |-> ~PyNe(rc_, PyInt(0))] : rc \in ExitCodes}

LockPathDep(dep_rel, base_dir, b) ==
    LET pyproj == Join(Join(base_dir, dep_rel), <<ManifestName>>) IN
    IF ~IsFile(b.s.tmp, pyproj) THEN Fail(b)
    ELSE {And(b, r) : r \in run_poetry_lock(b.s, pyproj)}

lock_local_path_deps(m, aggregator_pyproj, s) ==
    LET deps == extract_path_dependencies(m, aggregator_pyproj)
        base_dir == Dirname(aggregator_pyproj)
    IN  IF deps = <<>> THEN {[s |-> s, ok |-> TRUE]}
        ELSE ForEach(LAMBDA dep, b : LockPathDep(dep, base_dir, b), deps, 1,
                     {[s |-> s, ok |-> TRUE]})

\* An aggregator is locked itself, and then each of its path dependencies.
LockPyproject(m, pyproj_path, b) ==
    IF check_if_aggregator(m, pyproj_path)
    THEN UNION {{And(And(b, r1), r2) :
                    r2 \in lock_local_path_deps(m, pyproj_path, r1.s)} :
                  r1 \in run_poetry_lock(b.s, pyproj_path)}
    ELSE {And(b, r) : r \in run_poetry_lock(b.s, pyproj_path)}

lock_packages(m, a, s) ==
    LET found == find_pyproject_files(a.file, a.directory, a.recursive) IN
    IF ~found.ok THEN {[s |-> s, value |-> FALSE]}
    ELSE Returns(ForEach(LAMBDA pyproj, b : LockPyproject(m, pyproj, b),
                         found.files, 1, {[s |-> s, ok |-> TRUE]}))

\* _run_poetry_install: rc = run_command(cmd, cwd=package_dir); if rc != 0.
run_poetry_install(s, package_dir) ==
    {LET s2 == Spawn(s, "poetry_install", package_dir, <<"install_ops">>, rc)
         rc_ == run_command_result(s2)
     IN  [s |-> s2, ok |-> ~PyNe(rc_, PyInt(0))] : rc \in ExitCodes}

\* Both branches install in the manifest's own directory.
InstallPyproject(m, pyproj_path, b) ==
    IF check_if_aggregator(m, pyproj_path)
    THEN {And(b, r) : r \in run_poetry_install(b.s, Dirname(pyproj_path))}
    ELSE {And(b, r) : r \in run_poetry_install(b.s, Dirname(pyproj_path))}

\* An installation that falls back to the current directory.
InstallFallingBack(m, a, s) ==
    LET found == find_pyproject_files(a.file, a.directory, a.recursive) IN
    IF ~found.ok
    THEN {[s |-> r.s, value |-> FALSE] : r \in run_poetry_install(s, <<".">>)}
    ELSE Returns(ForEach(LAMBDA pyproj, b : InstallPyproject(m, pyproj, b),
                         found.files, 1, {[s |-> s, ok |-> TRUE]}))

install_packages(m, a, s) ==
    LET found == find_pyproject_files(a.file, a.directory, a.recursive) IN
    IF ~found.ok THEN {[s |-> s, value |-> FALSE]}
    ELSE Returns(ForEach(LAMBDA pyproj, b : InstallPyproject(m, pyproj, b),
                         found.files, 1, {[s |-> s, ok |-> TRUE]}))

(***************************************************************************)
(* Remote version rewriting (ops/remote_ops.py and the older               *)
(* remote_ops.py).  The text of a manifest, as far as rewriting reads it,  *)
(* is a document: unparsable, or a TOML document whose [tool.poetry] table *)
(* is absent or holds `dependencies` (name and details, in file order) and *)
(* `extras` (absent, or a dict of groups of names).  Details are a plain   *)
(* version string or a dict, a function from the keys present to values.   *)
(***************************************************************************)
PyDict(d) == [t |-> "dict", v |-> d]
Unparsable == [t |-> "garbage"]
TomlDoc(poetry) == [t |-> "doc", poetry |-> poetry]
\* tomlkit.dumps(doc): the text of a document.
Dumps(doc) == [t |-> "toml", v |-> doc]

\* Git URLs: two GitHub repositories and one hosted elsewhere.
GitHubUrls == {"u1", "u2"}
Urls == GitHubUrls \cup {"gl"}
\* The remote: what a GET of the raw manifest of each GitHub repository
\* answers -- a manifest with a version, an HTTP or network error, a text
\* that is no TOML, or a manifest without [tool.poetry].version.
RemoteStates == {"ok", "http_error", "garbage", "no_version"}
RemoteVersion == <<"2", ".", "0", ".", "0">>
\* A fetch that trusts the remote manifest to hold a version.
FetchWithoutVersionCheck(remote, git_url, branch, subdirectory) ==
    IF git_url \notin GitHubUrls THEN None
    ELSE IF remote[git_url] \in {"http_error", "garbage"} THEN None
    ELSE IF remote[git_url] = "no_version" THEN PyStr(<<>>)
    ELSE PyStr(RemoteVersion)

\* Every failure is caught or tested, and answers None.
fetch_remote_pyproject_version(remote, git_url, branch, subdirectory) ==
    IF git_url \notin GitHubUrls THEN None
    ELSE IF remote[git_url] = "http_error" THEN None
    ELSE IF remote[git_url] = "garbage" THEN None
    ELSE IF remote[git_url] = "no_version" THEN None
    ELSE PyStr(RemoteVersion)

\* f"^{remote_ver}"
Caret(remote_ver) == PyStr(<<"^">> \o remote_ver.v)

IsGitDep(details) == details.t = "dict" /\ "git" \in DOMAIN details.v
\* details.get(key, default)
DictGet(details, key, default) ==
    IF key \in DOMAIN details.v THEN details.v[key] ELSE default

\* dep_in_extras: the name is listed in some extras group.
dep_in_extras(extras_section, dep_name) ==
    /\ extras_section # None
    /\ \E i \in 1..Len(extras_section.v) :
          \E j \in 1..Len(extras_section.v[i].members) :
              extras_section.v[i].members[j] = dep_name

\* bool(details.get("optional", False)) or dep_in_extras(dep_name)
originally_optional(details, extras_section, dep_name) ==
    DictGet(details, "optional", FALSE) \/ dep_in_extras(extras_section, dep_name)

FetchFor(s, remote, details) ==
    LET remote_ver == fetch_remote_pyproject_version(remote, details.v.git,
                          DictGet(details, "branch", MainBranch),
                          DictGet(details, "subdirectory", <<>>))
    IN  [s |-> [s EXCEPT !.cmds = Append(@, Event("fetch", <<>>,
                    IF remote_ver # None THEN 0 ELSE 1,
                    <<details.v.git, DictGet(details, "branch", MainBranch),
                      DictGet(details, "subdirectory", <<>>)>>))],
         value |-> remote_ver]

\* An inline table whose version is taken from the entry when it has one.
NewInlineFromEntry(details, remote_ver, optional) ==
    LET keys == {"version", "git"}
                  \cup (IF optional THEN {"optional"} ELSE {})
                  \cup ({"branch", "subdirectory"} \cap DOMAIN details.v)
    IN  PyDict([k \in keys |->
                  CASE k = "version" ->
                         IF "version" \in DOMAIN details.v
                         THEN Caret(details.v.version) ELSE Caret(remote_ver)
                    [] k = "optional" -> TRUE
                    [] OTHER -> details.v[k]])

\* ops/remote_ops: the inline table that replaces a fetched dependency.
NewInline(details, remote_ver, optional) ==
    LET keys == {"version", "git"}
                  \cup (IF optional THEN {"optional"} ELSE {})
                  \cup ({"branch", "subdirectory"} \cap DOMAIN details.v)
    IN  PyDict([k \in keys |->
                  CASE k = "version" -> Caret(remote_ver)
                    [] k = "optional" -> TRUE
                    [] OTHER -> details.v[k]])

\* An iteration that also turns a plain version string into an inline table.
UpdateDepNormalising(i, extras_section, remote, acc) ==
    LET dep == acc.dependencies[i]
        f == FetchFor(acc.s, remote, dep.details)
    IN  IF dep.details.t = "str"
        THEN [acc EXCEPT !.dependencies[i].details = PyDict([version |-> dep.details]),
                         !.updated_any = TRUE]
        ELSE IF ~IsGitDep(dep.details) THEN acc
        ELSE IF f.value = None THEN [acc EXCEPT !.s = f.s]
        ELSE [s |-> f.s,
              dependencies |-> [acc.dependencies EXCEPT ![i].details =
                  NewInline(dep.details, f.value,
                      originally_optional(dep.details, extras_section, dep.name))],
              updated_any |-> TRUE]

\* ops/remote_ops: one iteration of `for dep_name, details in dependencies`.
\* The accumulator carries the execution state, the dependencies table and
\* updated_any.
UpdateDep(i, extras_section, remote, acc) ==
    LET dep == acc.dependencies[i]
        f == FetchFor(acc.s, remote, dep.details)
    IN  IF ~IsGitDep(dep.details) THEN acc
        ELSE IF f.value = None THEN [acc EXCEPT !.s = f.s]
        ELSE [s |-> f.s,
              dependencies |-> [acc.dependencies EXCEPT ![i].details =
                  NewInline(dep.details, f.value,
                      originally_optional(dep.details, extras_section, dep.name))],
              updated_any |-> TRUE]

RECURSIVE UpdateDeps(_, _, _, _)
UpdateDeps(i, extras_section, remote, acc) ==
    IF i > Len(acc.dependencies) THEN acc
    ELSE UpdateDeps(i + 1, extras_section, remote,
                    UpdateDep(i, extras_section, remote, acc))

DepNames(dependencies) == {dependencies[i].name : i \in 1..Len(dependencies)}
\* extras_section[extra_name] = [dep for dep in extra_list if dep in dependencies]
CleanExtras(extras_section, dependencies) ==
    PyDict([i \in 1..Len(extras_section.v) |->
               [extras_section.v[i] EXCEPT !.members =
                   SelectSeq(@, LAMBDA dep : dep \in DepNames(dependencies))]])

\* The document stored at a path.  The primary manifest is the variable
\* `manifest`, read here as a document; repo/pkg_b/pyproject.toml has no
\* [tool.poetry] table, the other manifests of the tree have no Git
\* dependency.
PathDetails(rel) == PyDict([path |-> rel])
GitDetails(d) ==
    LET keys == {"git"} \cup (IF d.branch # None THEN {"branch"} ELSE {})
                        \cup (IF d.subdirectory # None THEN {"subdirectory"} ELSE {})
    IN  PyDict([k \in keys |-> IF k = "git" THEN d.git ELSE d[k].v])
ManifestDoc(m) ==
    TomlDoc([dependencies |->
                [i \in 1..Len(m.path_deps) |->
                    [name |-> <<"path", i>>, details |-> PathDetails(m.path_deps[i])]]
                \o [i \in 1..Len(m.git_deps) |->
                    [name |-> <<"git", i>>, details |-> GitDetails(m.git_deps[i])]],
             extras |-> None])
PlainDoc ==
    TomlDoc([dependencies |-> <<[name |-> "requests", details |-> PyStr(<<"^", "2">>)]>>,
             extras |-> None])
ReadDoc(m, file_path) ==
    IF Dirname(file_path) = RepoDir
    THEN IF "t" \in DOMAIN m THEN m ELSE ManifestDoc(m)
    ELSE IF Dirname(file_path) = <<"repo", "pkg_b">> THEN TomlDoc(None)
    ELSE IF Dirname(file_path) = <<"repo", "sub_agg">>
    THEN TomlDoc([dependencies |-> <<>>, extras |-> None])
    ELSE PlainDoc

\* ops/remote_ops.update_pyproject_with_versions: the new text, or None.
update_pyproject_with_versions(m, remote, s, file_path) ==
    LET doc == ReadDoc(m, file_path)
        tool_poetry == doc.poetry
        extras_section == tool_poetry.extras
        had_extras == extras_section # None /\ extras_section.v # <<>>
        acc == UpdateDeps(1, extras_section, remote,
                          [s |-> s, dependencies |-> tool_poetry.dependencies,
                           updated_any |-> FALSE])
    IN  IF ~IsFile(s.tmp, file_path) THEN [s |-> s, value |-> None]
        ELSE IF doc = Unparsable THEN [s |-> s, value |-> None]
        ELSE IF tool_poetry = None THEN [s |-> s, value |-> None]
        ELSE IF ~acc.updated_any THEN [s |-> acc.s, value |-> Dumps(doc)]
        ELSE [s |-> acc.s,
              value |-> Dumps(TomlDoc(
                  [dependencies |-> acc.dependencies,
                   extras |-> IF had_extras
                              THEN CleanExtras(extras_section, acc.dependencies)
                              ELSE extras_section]))]

\* A write whose failure goes unnoticed.
WriteFileUnguarded(s, target, text) ==
    {[s |-> [s EXCEPT !.cmds = Append(@, Event("write", target, rc, <<text>>))],
      value |-> TRUE] : rc \in ExitCodes}

\* with open(target, "w") as f: f.write(text) -- the write can fail.
WriteFile(s, target, text) ==
    {[s |-> [s EXCEPT !.cmds = Append(@, Event("write", target, rc, <<text>>))],
      value |-> (rc = 0)] : rc \in ExitCodes}

\* The call of update_and_write_pyproject, kept in the history.
RewriteCall(s, input_file_path, output_file_path) ==
    [s EXCEPT !.cmds = Append(@, Event("rewrite", input_file_path, 0,
                                        <<output_file_path>>))]

\* A rewrite that overwrites its input whatever the output path.
UpdateAndWriteInPlace(m, remote, s, input_file_path, output_file_path) ==
    LET r == update_pyproject_with_versions(m, remote,
                 RewriteCall(s, input_file_path, output_file_path),
                 input_file_path)
    IN  IF r.value = None THEN {[s |-> r.s, value |-> FALSE]}
        ELSE WriteFile(r.s, input_file_path, r.value)

\* ops/remote_ops.update_and_write_pyproject
update_and_write_pyproject(m, remote, s, input_file_path, output_file_path) ==
    LET r == update_pyproject_with_versions(m, remote,
                 RewriteCall(s, input_file_path, output_file_path),
                 input_file_path)
        target == IF output_file_path # None THEN output_file_path.v
                  ELSE input_file_path
    IN  IF r.value = None THEN {[s |-> r.s, value |-> FALSE]}
        ELSE WriteFile(r.s, target, r.value)

\* The call of remote_update_bulk, kept in the history.
RemoteUpdateCall(s, a) ==
    [s EXCEPT !.cmds = Append(@, Event("remote_update",
        IF a.directory # None THEN a.directory.v ELSE <<>>, 0,
        <<a.file, a.recursive>>))]

\* One iteration of `for idx, pyproj_path in enumerate(pyprojects)`.
UpdatePyproject(m, remote, pyproj_path, out_path, n, b) ==
    {And(b, [s |-> r.s, ok |-> r.value]) :
        r \in update_and_write_pyproject(m, remote, b.s, pyproj_path,
                                         IF n = 1 THEN out_path ELSE None)}

\* ops/remote_ops.remote_update_bulk returns a bool.
remote_update_bulk(m, a, remote, s) ==
    LET found == find_pyproject_files(a.file, a.directory, a.recursive)
        pyprojects == found.files
        out_path == IF a.output # None /\ Len(pyprojects) > 1 THEN None
                    ELSE a.output
        s1 == RemoteUpdateCall(s, a)
    IN  IF ~found.ok THEN {[s |-> s1, value |-> PyBool(FALSE)]}
        ELSE IF pyprojects = <<>> THEN {[s |-> s1, value |-> PyBool(TRUE)]}
        ELSE {[s |-> b.s, value |-> PyBool(b.ok)] :
                b \in ForEach(LAMBDA pyproj_path, b :
                                UpdatePyproject(m, remote, pyproj_path, out_path,
                                                Len(pyprojects), b),
                              pyprojects, 1, {[s |-> s1, ok |-> TRUE]})}

(***************************************************************************)
(* The older remote_ops.py, which the command line uses.                   *)
(***************************************************************************)
\* The inline table holds the version and, if it was optional, the flag.
legacy_NewInline(remote_version, optional) ==
    PyDict([k \in {"version"} \cup (IF optional THEN {"optional"} ELSE {}) |->
              IF k = "version" THEN Caret(remote_version) ELSE TRUE])

\* details["optional"] = True, or details.pop("optional", None)
legacy_KeepDetails(details, optional) ==
    LET keys == (DOMAIN details.v \ {"optional"})
                  \cup (IF optional THEN {"optional"} ELSE {})
    IN  PyDict([k \in keys |-> IF k = "optional" THEN TRUE ELSE details.v[k]])

\* One iteration of `for dep_name, details in dependencies.items()`.
legacy_UpdateDep(i, extras, remote, acc) ==
    LET dep == acc.dependencies[i]
        f == FetchFor(acc.s, remote, dep.details)
        optional == originally_optional(dep.details, extras, dep.name)
    IN  IF ~IsGitDep(dep.details) THEN acc
        ELSE [acc EXCEPT !.s = f.s,
                         !.dependencies[i].details =
                             IF f.value # None
                             THEN legacy_NewInline(f.value, optional)
                             ELSE legacy_KeepDetails(dep.details, optional)]

RECURSIVE legacy_UpdateDeps(_, _, _, _)
legacy_UpdateDeps(i, extras, remote, acc) ==
    IF i > Len(acc.dependencies) THEN acc
    ELSE legacy_UpdateDeps(i + 1, extras, remote,
                           legacy_UpdateDep(i, extras, remote, acc))

\* remote_ops.update_pyproject_with_versions: the new document, or None.
legacy_update_pyproject_with_versions(m, remote, s, file_path) ==
    LET doc == ReadDoc(m, file_path)
        poetry_section == doc.poetry
        extras == poetry_section.extras
        had_extras_section == extras # None
        acc == legacy_UpdateDeps(1, extras, remote,
                   [s |-> s, dependencies |-> poetry_section.dependencies,
                    updated_any |-> FALSE])
    IN  IF ~IsFile(s.tmp, file_path) THEN [s |-> s, value |-> None]
        ELSE IF doc = Unparsable THEN [s |-> s, value |-> None]
        ELSE IF poetry_section = None THEN [s |-> s, value |-> None]
        ELSE [s |-> acc.s,
              value |-> TomlDoc(
                  [dependencies |-> acc.dependencies,
                   extras |-> IF had_extras_section
                              THEN CleanExtras(extras, acc.dependencies)
                              ELSE None])]

\* remote_ops.update_and_write_pyproject
legacy_update_and_write_pyproject(m, remote, s, input_file_path, output_file_path) ==
    LET r == legacy_update_pyproject_with_versions(m, remote,
                 RewriteCall(s, input_file_path, output_file_path),
                 input_file_path)
        target == IF output_file_path # None THEN output_file_path.v
                  ELSE input_file_path
    IN  IF r.value = None THEN {[s |-> r.s, value |-> FALSE]}
        ELSE WriteFile(r.s, target, Dumps(r.value))

legacy_UpdatePyproject(m, remote, pyproj_file, output, n, s) ==
    {r.s : r \in legacy_update_and_write_pyproject(m, remote, s, pyproj_file,
                     IF output # None /\ n = 1 THEN output ELSE None)}

\* remote_ops.remote_update_bulk returns nothing.
legacy_remote_update_bulk(m, a, remote, s) ==
    LET found == find_pyproject_files(a.file, a.directory, a.recursive)
        pyproject_files == found.files
        s1 == RemoteUpdateCall(s, a)
    IN  IF ~found.ok THEN {[s |-> s1, value |-> None]}
        ELSE {[s |-> s2, value |-> None] :
                s2 \in ForEach(LAMBDA pyproj_file, s3 :
                                 legacy_UpdatePyproject(m, remote, pyproj_file,
                                     a.output, Len(pyproject_files), s3),
                               pyproject_files, 1, {s1})}

(***************************************************************************)
(* Versions (ops/version_ops.py and the older version_ops.py).  A version  *)
(* string is a sequence of tokens: numbers, dots, the markers "dev" and    *)
(* "rc", and text that no version holds.                                   *)
(***************************************************************************)
Num(n) == [k |-> "num", n |-> n]
Dot == [k |-> "dot", n |-> 0]
Dev == [k |-> "dev", n |-> 0]
Rc == [k |-> "rc", n |-> 0]
Junk == [k |-> "junk", n |-> 0]

Is(s, i, k) == i <= Len(s) /\ s[i].k = k

\* packaging's pattern, release part: N(.N)* from position i on.
RECURSIVE ScanRelease(_, _, _)
ScanRelease(s, i, acc) ==
    IF ~Is(s, i, "num") THEN [release |-> acc, next |-> i]
    ELSE IF Is(s, i + 1, "dot") /\ Is(s, i + 2, "num")
    THEN ScanRelease(s, i + 2, Append(acc, s[i].n))
    ELSE [release |-> Append(acc, s[i].n), next |-> i + 1]

\* An optional segment [.]marker[N]: its number (0 when left out), or None.
ScanMarker(s, i, marker) ==
    LET j == IF Is(s, i, "dot") /\ Is(s, i + 1, marker) THEN i + 1 ELSE i IN
    IF ~Is(s, j, marker) THEN [value |-> None, next |-> i]
    ELSE IF Is(s, j + 1, "num") THEN [value |-> PyInt(s[j + 1].n), next |-> j + 2]
    ELSE [value |-> PyInt(0), next |-> j + 1]

InvalidVersion == [t |-> "InvalidVersion"]
\* packaging.version.Version(s): the parsed version, or InvalidVersion.
Version(s) ==
    LET rel == ScanRelease(s, 1, <<>>)
        pre == ScanMarker(s, rel.next, "rc")
        dev == ScanMarker(s, pre.next, "dev")
    IN  IF rel.release = <<>> \/ dev.next # Len(s) + 1 THEN InvalidVersion
        ELSE [t |-> "Version", release |-> rel.release,
              pre |-> pre.value, dev |-> dev.value]

\* f"{major}.{minor}.{patch}" and f"{major}.{minor}.{patch}.dev{n}"
FormatFinal(major, minor, patch) ==
    <<Num(major), Dot, Num(minor), Dot, Num(patch)>>
\* A development version whose number is always 0.
FormatDevZero(major, minor, patch, n) ==
    FormatFinal(major, minor, patch) \o <<Dot, Dev, Num(0)>>
FormatDev(major, minor, patch, n) ==
    FormatFinal(major, minor, patch) \o <<Dot, Dev, Num(n)>>

BumpTypes == {"major", "minor", "patch", "finalize"}

\* A bump that takes the patch branch for every unknown bump type.
BumpDefaultingToPatch(current_version, bump_type) ==
    LET ver == Version(current_version)
        is_dev == ver.dev # None
        major == ver.release[1]
        minor == ver.release[2]
        patch == ver.release[3]
    IN  IF ver = InvalidVersion THEN PyRaise("ValueError")
        ELSE IF Len(ver.release) # 3 THEN PyRaise("ValueError")
        ELSE IF bump_type = "finalize" THEN
            IF is_dev THEN PyStr(FormatFinal(major, minor, patch))
            ELSE PyRaise("ValueError")
        ELSE IF bump_type = "major" THEN PyStr(FormatDev(major + 1, 0, 0, 1))
        ELSE IF bump_type = "minor" THEN PyStr(FormatDev(major, minor + 1, 0, 1))
        ELSE IF is_dev THEN PyStr(FormatDev(major, minor, patch, ver.dev.v + 1))
        ELSE PyStr(FormatDev(major, minor, patch + 1, 1))

\* bump_version: the new version string, or the ValueError raised (for a
\* string that is no version, for a release that is not three numbers --
\* `major, minor, patch = ver.release` --, for a final version to finalize
\* and for an unknown bump type).
bump_version(current_version, bump_type) ==
    LET ver == Version(current_version)
        is_dev == ver.dev # None
        major == ver.release[1]
        minor == ver.release[2]
        patch == ver.release[3]
    IN  IF ver = InvalidVersion THEN PyRaise("ValueError")
        ELSE IF Len(ver.release) # 3 THEN PyRaise("ValueError")
        ELSE IF bump_type = "finalize" THEN
            IF is_dev THEN PyStr(FormatFinal(major, minor, patch))
            ELSE PyRaise("ValueError")
        ELSE IF bump_type = "major" THEN PyStr(FormatDev(major + 1, 0, 0, 1))
        ELSE IF bump_type = "minor" THEN PyStr(FormatDev(major, minor + 1, 0, 1))
        ELSE IF bump_type = "patch" THEN
            IF is_dev THEN PyStr(FormatDev(major, minor, patch, ver.dev.v + 1))
            ELSE PyStr(FormatDev(major, minor, patch + 1, 1))
        ELSE PyRaise("ValueError")

\* The order of versions (packaging's _cmpkey): the release without its
\* trailing zeros, then the pre-release, then the development number.  A
\* missing pre-release sorts after every pre-release, except on a
\* development release, where it sorts before; a missing development
\* number sorts after every development number.
NegativeInfinity == <<0, 0>>
Finite(n) == <<1, n>>
Infinity == <<2, 0>>
RECURSIVE StripZeros(_)
StripZeros(release) ==
    IF release # <<>> /\ release[Len(release)] = 0
    THEN StripZeros(SubSeq(release, 1, Len(release) - 1))
    ELSE release
\* Python's `<` on tuples of integers.
RECURSIVE TupleLess(_, _)
TupleLess(a, b) ==
    IF b = <<>> THEN FALSE
    ELSE IF a = <<>> THEN TRUE
    ELSE IF a[1] # b[1] THEN a[1] < b[1]
    ELSE TupleLess(Tail(a), Tail(b))
CmpKey(ver) ==
    [release |-> StripZeros(ver.release),
     pre |-> IF ver.pre = None
             THEN IF ver.dev # None THEN NegativeInfinity ELSE Infinity
             ELSE Finite(ver.pre.v),
     dev |-> IF ver.dev = None THEN Infinity ELSE Finite(ver.dev.v)]
\* a < b
VersionLess(a, b) ==
    LET ka == CmpKey(a)
        kb == CmpKey(b)
    IN  \/ TupleLess(ka.release, kb.release)
        \/ /\ ka.release = kb.release
           /\ \/ TupleLess(ka.pre, kb.pre)
              \/ ka.pre = kb.pre /\ TupleLess(ka.dev, kb.dev)

InvalidVersionError == PyRaise("ValueError: Invalid version provided")
DowngradeError == PyRaise("ValueError: You cannot bump the version downwards")

\* A check that also rejects the current version itself.
ValidateRejectingEqual(current_version, new_version) ==
    LET cur_ver == Version(current_version)
        tgt_ver == Version(new_version)
    IN  IF cur_ver = InvalidVersion \/ tgt_ver = InvalidVersion
        THEN InvalidVersionError
        ELSE IF ~VersionLess(cur_ver, tgt_ver) THEN DowngradeError
        ELSE None

\* validate_new_version_is_not_lower: None, or the ValueError raised.
validate_new_version_is_not_lower(current_version, new_version) ==
    LET cur_ver == Version(current_version)
        tgt_ver == Version(new_version)
    IN  IF cur_ver = InvalidVersion \/ tgt_ver = InvalidVersion
        THEN InvalidVersionError
        ELSE IF VersionLess(tgt_ver, cur_ver) THEN DowngradeError
        ELSE None

(***************************************************************************)
(* ops/version_ops.bulk_bump_or_set_version.  `versions` gives what each   *)
(* manifest holds under [tool.poetry].version, `readonly` the manifests    *)
(* that cannot be opened for writing.                                      *)
(***************************************************************************)
NoVersionKey == [t |-> "no_version"]
UnparsableToml == [t |-> "unparsable"]

\* read_pyproject_version: the version string, or the error raised.
read_pyproject_version(versions, file_path) ==
    LET content == versions[file_path]
    IN  IF content = UnparsableToml THEN PyRaise("ValueError: Could not parse TOML")
        ELSE IF content = NoVersionKey THEN PyRaise("KeyError: No version found")
        ELSE content

\* write_pyproject_version: the manifests after the write, or the error.
write_pyproject_version(versions, readonly, file_path, new_version) ==
    IF versions[file_path] = UnparsableToml
    THEN PyRaise("ValueError: Could not parse TOML")
    ELSE IF file_path \in readonly
    THEN PyRaise("ValueError: Failed writing updated pyproject.toml")
    ELSE PyDict([versions EXCEPT ![file_path] = PyStr(new_version)])

\* One turn of the loop over the discovered manifests, statement by
\* statement: the write, reached when the downgrade check raised nothing;
AfterCheck(versions, readonly, pyproj, new_ver, checked) ==
    IF checked.t = "raise" THEN checked
    ELSE write_pyproject_version(versions, readonly, pyproj, new_ver.v)

\* the downgrade check, reached with a new version;
AfterBump(versions, readonly, pyproj, current_ver, new_ver) ==
    IF new_ver.t = "raise" THEN new_ver
    ELSE AfterCheck(versions, readonly, pyproj, new_ver,
                    validate_new_version_is_not_lower(current_ver.v, new_ver.v))

\* the bump or the version to set, reached with the version read;
AfterRead(versions, readonly, pyproj, bump, set_ver, current_ver) ==
    IF current_ver.t = "raise" THEN current_ver
    ELSE AfterBump(versions, readonly, pyproj, current_ver,
                   IF bump # None THEN bump_version(current_ver.v, bump.v)
                   ELSE set_ver)

\* and the read.
BumpOne(versions, readonly, pyproj, bump, set_ver) ==
    AfterRead(versions, readonly, pyproj, bump, set_ver,
              read_pyproject_version(versions, pyproj))

\* The manifests and the pending error after a turn r of the loop.
Settle(acc, r) ==
    IF r.t = "raise" THEN [versions |-> acc.versions, value |-> r]
    ELSE [versions |-> r.v, value |-> None]

\* A batch that stops at the first error without raising it.
RECURSIVE BumpLoopSwallowing(_, _, _, _, _, _)
BumpLoopSwallowing(acc, readonly, files, i, bump, set_ver) ==
    IF i > Len(files) \/ acc.value # None THEN [acc EXCEPT !.value = None]
    ELSE BumpLoopSwallowing(
             Settle(acc, BumpOne(acc.versions, readonly, files[i], bump, set_ver)),
             readonly, files, i + 1, bump, set_ver)

\* `for pyproj in pyproject_files`: the manifests on disk at the end and
\* None, or the error that ended the loop.
RECURSIVE BumpLoop(_, _, _, _, _, _)
BumpLoop(acc, readonly, files, i, bump, set_ver) ==
    IF i > Len(files) \/ acc.value # None THEN acc
    ELSE BumpLoop(
             Settle(acc, BumpOne(acc.versions, readonly, files[i], bump, set_ver)),
             readonly, files, i + 1, bump, set_ver)

bulk_bump_or_set_version(a) ==
    LET found == find_pyproject_files(a.file, a.directory, a.recursive) IN
    IF a.bump = None /\ a.set_ver = None
    THEN [versions |-> a.versions, value |-> None]
    ELSE IF ~found.ok
    THEN [versions |-> a.versions,
          value |-> PyRaise("RuntimeError: Error discovering pyproject files")]
    ELSE BumpLoop([versions |-> a.versions, value |-> None], a.readonly,
                  found.files, 1, a.bump, a.set_ver)

(***************************************************************************)
(* ops/analyze_ops.evaluate_threshold.  A threshold string is a sequence   *)
(* of tokens in which ":" is a token of its own.                           *)
(***************************************************************************)
\* str.split(":"): the pieces between the colons.
RECURSIVE SplitColon(_, _, _)
SplitColon(s, i, piece) ==
    IF i > Len(s) THEN <<piece>>
    ELSE IF s[i] = ":" THEN <<piece>> \o SplitColon(s, i + 1, <<>>)
    ELSE SplitColon(s, i + 1, Append(piece, s[i]))

\* float(limit_str): the number, or ValueError for a text that is no number.
IsNumeral(limit_str) == limit_str \in {<<"60">>, <<"75">>}
Float(limit_str) == IF limit_str = <<"60">> THEN 60 ELSE 75

FormatError == PyRaise("ValueError: Invalid threshold format")
OperatorError == PyRaise("ValueError: Invalid operator")

evaluate_threshold(value, threshold) ==
    LET pieces == SplitColon(threshold, 1, <<>>)
        op_ == pieces[1]
        limit_str == pieces[2]
        limit == Float(limit_str)
    IN  IF Len(pieces) # 2 THEN FormatError
        ELSE IF ~IsNumeral(limit_str) THEN FormatError
        ELSE IF op_ = <<"gt">> THEN PyBool(value > limit)
        ELSE IF op_ = <<"lt">> THEN PyBool(value < limit)
        ELSE IF op_ = <<"eq">> THEN PyBool(value = limit)
        ELSE IF op_ = <<"ge">> THEN PyBool(value >= limit)
        ELSE IF op_ = <<"le">> THEN PyBool(value <= limit)
        ELSE OperatorError

(***************************************************************************)
(* Collaborators of the phases whose inner working is not part of this     *)
(* model: each records its call and succeeds or fails.                     *)
(***************************************************************************)

\* The report file: missing, no JSON, or a JSON object whose "summary" is
\* absent (None) or holds the counts and whose "tests" is a list of outcomes.
MissingReport == [t |-> "missing"]
GarbageReport == [t |-> "garbage"]
JsonReport(summary, tests) == [t |-> "json", summary |-> summary, tests |-> tests]
Totals == {0, 4, 5}
Summaries ==
    {[total |-> n, passed |-> p, failed |-> f, skipped |-> n - p - f] :
        n \in Totals, p \in 0..5, f \in 0..5}
Reports ==
    {MissingReport, GarbageReport}
        \cup {JsonReport(sm, ts) :
                sm \in {None} \cup {x \in Summaries : x.skipped >= 0},
                ts \in {<<>>, <<"passed", "failed">>}}

\* count / total_tests * 100.0 (exact for the totals above)
Percent(count, total_tests) == (count * 100) \div total_tests

\* "if required_passed:" is false for None and for the empty string.
Supplied(required) == required # None /\ required.v # <<>>

\* An analysis that fails a report with failed tests.
AnalyzeFailingOnFailedTests(report, required_passed, required_skipped) ==
    LET summary == report.summary
        passed == IF Supplied(required_passed)
                  THEN evaluate_threshold(Percent(summary.passed, summary.total),
                                          required_passed.v)
                  ELSE PyBool(TRUE)
        skipped == IF Supplied(required_skipped)
                   THEN evaluate_threshold(Percent(summary.skipped, summary.total),
                                           required_skipped.v)
                   ELSE PyBool(TRUE)
    IN  IF report.t \in {"missing", "garbage"} THEN PyBool(FALSE)
        ELSE IF summary = None \/ report.tests = <<>> THEN PyBool(FALSE)
        ELSE IF summary.total = 0 THEN PyBool(FALSE)
        ELSE IF passed.t = "raise" THEN passed
        ELSE IF skipped.t = "raise" THEN skipped
        ELSE IF ~passed.v \/ ~skipped.v THEN PyBool(FALSE)
        ELSE PyBool(summary.failed = 0)

\* ops/analyze_ops.analyze_test_file, from the content of the report: a
\* bool, or the ValueError of evaluate_threshold.  It runs no command; the
\* tables it prints are left out.
AnalyzeReport(report, required_passed, required_skipped) ==
    LET summary == report.summary
        passed == IF Supplied(required_passed)
                  THEN evaluate_threshold(Percent(summary.passed, summary.total),
                                          required_passed.v)
                  ELSE PyBool(TRUE)
        skipped == IF Supplied(required_skipped)
                   THEN evaluate_threshold(Percent(summary.skipped, summary.total),
                                           required_skipped.v)
                   ELSE PyBool(TRUE)
    IN  IF report.t \in {"missing", "garbage"} THEN PyBool(FALSE)
        ELSE IF summary = None \/ report.tests = <<>> THEN PyBool(FALSE)
        ELSE IF summary.total = 0 THEN PyBool(FALSE)
        ELSE IF passed.t = "raise" THEN passed
        ELSE IF skipped.t = "raise" THEN skipped
        ELSE IF ~passed.v \/ ~skipped.v THEN PyBool(FALSE)
        ELSE PyBool(TRUE)

\* The call made by run_validate, which passes no threshold attribute it
\* does not have: getattr(args, "required_passed", None).  The report is
\* whatever the file holds.
analyze_test_file(s, file_path) ==
    {[s |-> [s EXCEPT !.cmds = Append(@, Event("analyze", <<>>,
                 IF AnalyzeReport(report, None, None).v THEN 0 ELSE 1,
                 <<file_path>>))],
      value |-> AnalyzeReport(report, None, None).v] : report \in Reports}

(***************************************************************************)
(* phases/validate.run_validate: lock, build, install, test, analyze.      *)
(* A result says whether the phase called sys.exit(1), and what it         *)
(* returned otherwise.                                                     *)
(***************************************************************************)
Exit1(s) == [s |-> s, exit |-> TRUE, value |-> None]
\* The function ends without a return statement.
ValidateEnd(s) == [s |-> s, exit |-> FALSE, value |-> None]

\* lock_ok = lock_packages(...), build_ok = ..., and so on: what a stage
\* reported to run_validate, kept in the history.
Report(s, stage, ok) ==
    [s EXCEPT !.cmds = Append(@, Event("stage_result", <<>>,
                                        IF ok THEN 0 ELSE 1, <<stage>>))]

ValidateAnalyze(a, s) ==
    IF a.results_json # None
    THEN {IF r.value THEN ValidateEnd(Report(r.s, "analyze", TRUE))
                     ELSE Exit1(Report(r.s, "analyze", FALSE)) :
             r \in analyze_test_file(s, a.results_json)}
    ELSE {ValidateEnd(s)}

\* run_tests_with_mode is called without `cleanup`, which defaults to True.
ValidateTestArgs(a) ==
    [file |-> a.file, directory |-> a.directory, recursive |-> a.recursive,
     mode |-> a.test_mode, cleanup |-> TRUE]

ValidateTest(m, a, s) ==
    UNION {IF ~r.value.success
           THEN {Exit1(Report(r.s, "test", FALSE))}
           ELSE ValidateAnalyze(a, Report(r.s, "test", TRUE)) :
             r \in run_tests_with_mode(m, ValidateTestArgs(a), s)}

ValidateInstall(m, a, s) ==
    UNION {IF ~r.value
           THEN {Exit1(Report(r.s, "install", FALSE))}
           ELSE ValidateTest(m, a, Report(r.s, "install", TRUE)) :
             r \in install_packages(m, a, s)}

ValidateBuild(m, a, s) ==
    UNION {IF ~r.value
           THEN {Exit1(Report(r.s, "build", FALSE))}
           ELSE ValidateInstall(m, a, Report(r.s, "build", TRUE)) :
             r \in build_packages(m, a, s)}

\* A validate that goes on to build whatever the lock stage reported.
ValidateIgnoringLock(m, a, s) ==
    UNION {ValidateBuild(m, a, Report(r.s, "lock", r.value)) :
             r \in lock_packages(m, a, s)}

run_validate(m, a, s) ==
    UNION {IF ~r.value
           THEN {Exit1(Report(r.s, "lock", FALSE))}
           ELSE ValidateBuild(m, a, Report(r.s, "lock", TRUE)) :
             r \in lock_packages(m, a, s)}

(***************************************************************************)
(* phases/release.run_release.  A result carries the execution state and   *)
(* how the phase ended: "returned", "exit1" (sys.exit(1)) or "raised".     *)
(***************************************************************************)
End(s, how) == [s |-> s, pc |-> how]

\* What the remote answers during a release is the environment's choice.
Remotes == [GitHubUrls -> RemoteStates]

\* ru_result = remote_update_bulk(...); ru_result["overall_success"]:
\* remote_update_bulk returned a bool, and a bool cannot be subscripted.
ReleaseRemoteUpdate(m, s, file, directory, recursive) ==
    {[s |-> r.s, raised |-> r.value.t # "dict"] :
        r \in UNION {remote_update_bulk(m,
                        [file |-> file, directory |-> directory,
                         recursive |-> recursive, output |-> None], remote, s) :
                     remote \in Remotes}}

\* The publish half of one iteration of `for sub_dir in passed_dirs`.
ReleasePublish(s2, sub_dir) ==
    {LET s3 == Spawn(s2, "poetry_publish", sub_dir, <<"release">>, rc)
         pub_rc == UnpackRc(run_command_result(s3))
     IN  [s |-> s3, ok |-> ~PyNe(pub_rc, PyInt(0))] : rc \in ExitCodes}

ReleaseBuildThenPublish(s2, sub_dir) ==
    LET build_rc == UnpackRc(run_command_result(s2)) IN
    IF PyNe(build_rc, PyInt(0)) THEN {[s |-> s2, ok |-> FALSE]}
    ELSE ReleasePublish(s2, sub_dir)

\* One iteration of `for sub_dir in passed_dirs`.
ReleaseItem(sub_dir, is_agg, aggregator_pyproj, b) ==
    IF is_agg /\ AbsPath(sub_dir) = Dirname(aggregator_pyproj) THEN {b}
    ELSE UNION {{And(b, r) : r \in ReleaseBuildThenPublish(
                    Spawn(b.s, "poetry_build", sub_dir, <<"release">>, rc),
                    sub_dir)} : rc \in ExitCodes}

PassedDirs(details) ==
    LET passed == SelectSeq(details, LAMBDA d : d.success)
    IN  [i \in 1..Len(passed) |-> passed[i].directory]

ReleaseEachPublish(m, s, passed_dirs, aggregator_pyproj) ==
    LET is_agg == check_if_aggregator(m, aggregator_pyproj) IN
    {IF b.ok THEN End(b.s, "returned") ELSE End(b.s, "exit1") :
        b \in ForEach(LAMBDA sub_dir, b :
                        ReleaseItem(sub_dir, is_agg, aggregator_pyproj, b),
                      passed_dirs, 1, {[s |-> s, ok |-> TRUE]})}

ReleaseEach(m, a, s, test_results) ==
    LET passed_dirs == PassedDirs(test_results.details)
        found == find_pyproject_files(a.file, a.directory, a.recursive)
    IN  IF test_results.details = <<>> THEN {End(s, "exit1")}
        ELSE IF passed_dirs = <<>> THEN {End(s, "exit1")}
        ELSE IF ~found.ok THEN {End(s, "raised")}
        ELSE IF test_results.git_temp_dir # None
        THEN UNION {IF r.raised THEN {End(r.s, "raised")}
                    ELSE ReleaseEachPublish(m, r.s, passed_dirs, found.files[1]) :
                      r \in ReleaseRemoteUpdate(m, s, None,
                                test_results.git_temp_dir, TRUE)}
        ELSE ReleaseEachPublish(m, s, passed_dirs, found.files[1])

\* Single / monorepo mode after the remote update: build, then publish.
ReleaseSinglePublish(m, a, s) ==
    {IF r.value THEN End(r.s, "returned") ELSE End(r.s, "exit1") :
        r \in publish_packages(m, a, s)}

ReleaseSingleBuild(m, a, s) ==
    UNION {IF ~r.value THEN {End(r.s, "exit1")}
           ELSE ReleaseSinglePublish(m, a, r.s) :
             r \in build_packages(m, a, s)}

ReleaseSingle(m, a, s, test_results) ==
    IF ~test_results.success THEN {End(s, "exit1")}
    ELSE UNION {IF r.raised THEN {End(r.s, "raised")}
                ELSE ReleaseSingleBuild(m, a, r.s) :
                  r \in ReleaseRemoteUpdate(m, s, a.file, a.directory, a.recursive)}

\* test_results = run_validate(args); test_results.get("success", False):
\* run_validate returns None, which has no `get`.
ReleaseAfterValidate(m, a, v) ==
    IF v.exit THEN {End(v.s, "exit1")}
    ELSE IF v.value.t # "dict" THEN {End(v.s, "raised")}
    ELSE IF a.test_mode # "each" THEN ReleaseSingle(m, a, v.s, v.value.v)
    ELSE ReleaseEach(m, a, v.s, v.value.v)

run_release(m, a, s) ==
    UNION {ReleaseAfterValidate(m, a, v) : v \in run_validate(m, a, s)}

(***************************************************************************)
(* poetry_ops.build_monorepo (the older entry point): builds the path      *)
(* dependencies, then clones and builds the Git dependencies.  Its         *)
(* run_command returns the captured output and never looks at the exit     *)
(* code.                                                                   *)
(***************************************************************************)
BuildRoot == <<"tmp", "mono_build_">>

\* build_and_collect_artifacts inside try/except: `poetry build`, whatever
\* its exit code.
MonoBuild(s, project_path) ==
    {Spawn(s, "poetry_build", project_path, <<"build_monorepo">>, rc) :
        rc \in ExitCodes}

MonoPathDep(path_rel, aggregator_dir, s) ==
    LET sub_path == Join(aggregator_dir, path_rel)
        pyproj_file == Join(sub_path, <<ManifestName>>)
    IN  IF ~IsDir(s.tmp, sub_path) THEN {s}
        ELSE IF ~IsFile(s.tmp, pyproj_file) THEN {s}
        ELSE MonoBuild(s, sub_path)

MonoSubPkg(entry, clone_dir, s) ==
    LET sub_path == Join(clone_dir, SplitSlash(entry.subdir))
        pyproj_file == Join(sub_path, <<ManifestName>>)
    IN  IF ~IsDir(s.tmp, sub_path) THEN {s}
        ELSE IF ~IsFile(s.tmp, pyproj_file) THEN {s}
        ELSE MonoBuild(s, sub_path)

MonoGitGroup(group, build_root, s) ==
    LET git_url == group.key[1]
        branch == group.key[2]
        clone_dir == CloneDir(build_root, git_url, branch)
    IN  UNION {ForEach(LAMBDA entry, s3 : MonoSubPkg(entry, clone_dir, s3),
                       group.sub_pkgs, 1, {s2}) :
                 s2 \in GitClone(s, git_url, branch, clone_dir)}

MonoCleanup(s, build_root, created_temp_dir, cleanup) ==
    IF created_temp_dir /\ cleanup THEN Rmtree(s, build_root) ELSE s

build_monorepo(m, a, s) ==
    LET aggregator_path == AbsPath(a.file.v)
        aggregator_dir == Dirname(aggregator_path)
        created_temp_dir == (a.build_dir = None)
        build_root == IF a.build_dir # None THEN a.build_dir.v ELSE BuildRoot
        \* os.makedirs(build_dir, exist_ok=True) or tempfile.mkdtemp
        s0 == Mkdtemp(s, build_root)
        path_deps == extract_path_dependencies(m, aggregator_path)
        git_deps == extract_git_dependencies(m, aggregator_path)
        S1 == ForEach(LAMBDA rel, s1 : MonoPathDep(rel, aggregator_dir, s1),
                      path_deps, 1, {s0})
        grouped == GroupGitDeps(git_deps, 1, <<>>)
        S2 == UNION {ForEach(LAMBDA group, s2 :
                                MonoGitGroup(group, build_root, s2),
                             grouped, 1, {s1}) : s1 \in S1}
    IN  IF ~IsFile(s.tmp, aggregator_path) THEN {End(s, "raised")}
        ELSE {End(MonoCleanup(s2, build_root, created_temp_dir, a.cleanup),
                  "returned") : s2 \in S2}

(***************************************************************************)
(* Inputs                                                                  *)
(***************************************************************************)
SeqsUpTo(S, n) == UNION {[1..k -> S] : k \in 0..n}

RelPaths == { <<".">>, <<"pkg_a">>, <<"pkg_b">>, <<"sub_agg">>, <<"nomf">>,
              <<"gone">> }
BranchOpts == {None, PyStr(<<"feat", "/", "x">>), PyStr(<<"feat", "-", "x">>)}
SubdirOpts == {None, PyStr(<<"pkgs", "/", "x">>), PyStr(<<"docs">>)}
GitDeps == [git : Urls, branch : BranchOpts, subdirectory : SubdirOpts]
PackageModes == {None, PyBool(FALSE)}

OneGitDep == [git |-> "u1", branch |-> None, subdirectory |-> None]

\* Many path dependencies with at most one Git dependency, or many Git
\* dependencies with at most one path dependency.
Manifests ==
    [package_mode : PackageModes, path_deps : SeqsUpTo(RelPaths, MaxPathDeps),
     git_deps : {<<>>, <<OneGitDep>>}]
      \cup
    [package_mode : {PyBool(FALSE)}, path_deps : {<<>>, <<<<"pkg_a">>>>},
     git_deps : SeqsUpTo(GitDeps, MaxGitDeps)]

SmallManifests ==
    [package_mode : PackageModes, path_deps : SeqsUpTo(RelPaths, 1),
     git_deps : {<<>>, <<OneGitDep>>}]

RepoManifest == Join(RepoDir, <<ManifestName>>)

Targets ==
    { [file |-> None, directory |-> PyStr(RepoDir), recursive |-> FALSE],
      [file |-> None, directory |-> PyStr(RepoDir), recursive |-> TRUE],
      [file |-> PyStr(<<"repo", ".", ManifestName>>), directory |-> None,
       recursive |-> FALSE],
      [file |-> PyStr(<<"repo", "pkg_a", ManifestName>>), directory |-> None,
       recursive |-> FALSE],
      [file |-> PyStr(<<"repo", "gone", ManifestName>>), directory |-> None,
       recursive |-> FALSE],
      [file |-> None, directory |-> PyStr(<<"repo", "gone">>), recursive |-> FALSE],
      [file |-> None, directory |-> PyStr(<<"repo", "nomf">>), recursive |-> TRUE],
      [file |-> None, directory |-> None, recursive |-> FALSE] }

MainTarget == [file |-> None, directory |-> PyStr(RepoDir), recursive |-> FALSE]

TestArgs(targets, modes) ==
    { [file |-> tg.file, directory |-> tg.directory, recursive |-> tg.recursive,
       mode |-> md, cleanup |-> cl] :
         tg \in targets, md \in modes, cl \in BOOLEAN }

\* Documents given to the rewrite: dependency "a" in every shape, followed
\* or not by a dependency "b"; extras absent, empty, or one group that may
\* list a dependency and a name that is no dependency.
OptionalOpts == {"absent", "true", "false"}
MkGitDetails(git, more, optional) ==
    PyDict([k \in {"git"} \cup more
                  \cup (IF optional = "absent" THEN {} ELSE {"optional"}) |->
              CASE k = "git" -> git
                [] k = "branch" -> <<"dev">>
                [] k = "subdirectory" -> <<"pkgs", "/", "x">>
                [] k = "optional" -> (optional = "true")])
GitShapes ==
    {MkGitDetails(g, more, o) :
        g \in Urls, more \in {{}, {"branch"}, {"branch", "subdirectory"}},
        o \in OptionalOpts}
PlainDetails == PyStr(<<"^", "1">>)
DetailsA == GitShapes \cup {PlainDetails, PathDetails(<<"pkg_a">>)}
DetailsB == {PlainDetails, MkGitDetails("u2", {}, "absent"),
             MkGitDetails("u2", {}, "true")}
DepsOpts ==
    {<<>>} \cup {<<[name |-> "a", details |-> x]>> : x \in DetailsA}
           \cup {<<[name |-> "a", details |-> x], [name |-> "b", details |-> y]>> :
                    x \in DetailsA, y \in DetailsB}
Group(members) == [name |-> "all", members |-> members]
ExtrasOpts ==
    {None, PyDict(<<>>), PyDict(<<Group(<<"a">>)>>),
     PyDict(<<Group(<<"b", "ghost">>)>>), PyDict(<<Group(<<"ghost">>)>>)}
RewriteDocs ==
    {TomlDoc([dependencies |-> d, extras |-> e]) : d \in DepsOpts, e \in ExtrasOpts}
        \cup {Unparsable, TomlDoc(None)}
SmallRewriteDocs ==
    {TomlDoc([dependencies |-> <<[name |-> "a", details |-> x]>>, extras |-> None]) :
        x \in {PlainDetails, MkGitDetails("u1", {}, "absent"),
               MkGitDetails("u1", {"branch"}, "true")}}
        \cup {Unparsable, TomlDoc(None)}
OutputOpts == {None, PyStr(<<"out.toml">>)}

RewriteArgs ==
    [input_file_path : {RepoManifest, <<"repo", "gone", ManifestName>>},
     output_file_path : OutputOpts, remote : Remotes]
BulkArgs ==
    { [file |-> tg.file, directory |-> tg.directory, recursive |-> tg.recursive,
       output |-> out, remote |-> remote] :
         tg \in Targets, out \in OutputOpts, remote \in Remotes }

\* Arguments of the resolver: a file that exists (written with a "."
\* component or without), a missing file, a directory given as file; the
\* same for directories; with and without each other.
FindArgs ==
    [file : {None, PyStr(<<"repo", ".", ManifestName>>),
             PyStr(<<"repo", "pkg_a", ManifestName>>),
             PyStr(<<"repo", "gone", ManifestName>>), PyStr(<<"repo", "nomf">>)},
     directory : {None, PyStr(RepoDir), PyStr(<<"repo", ".", "pkg_a">>),
                  PyStr(<<"repo", "nomf">>), PyStr(<<"repo", "gone">>),
                  PyStr(<<"repo", "pkg_b", ManifestName>>)},
     recursive : BOOLEAN]

\* [tool.poetry] tables given to the classifier: package-mode absent, a
\* boolean, "false" and "true" in several letter cases, other strings, a
\* number; name absent, empty or given.
ModeStrings ==
    { <<"f", "a", "l", "s", "e">>, <<"F", "a", "l", "s", "e">>,
      <<"F", "A", "L", "S", "E">>, <<"f", "A", "l", "S", "e">>,
      <<"t", "r", "u", "e">>, <<"T", "R", "U", "E">>,
      <<"f", "a", "l", "s", "e", "y">>, <<"f", "a", "l", "s">>,
      <<"n", "o">>, <<"0">>, <<>> }
PackageModeValues ==
    {None, PyBool(TRUE), PyBool(FALSE), PyInt(0), PyInt(1)}
        \cup {PyStr(s) : s \in ModeStrings}
PoetryTables ==
    [package_mode : PackageModeValues,
     name : {None, PyStr(<<>>), PyStr(<<"p", "k", "g">>), PyStr(StrFalse)}]

\* Version strings: X.Y.Z and X.Y.Z.devN over the bounds; other strings that
\* packaging parses (two or four release numbers, a release candidate, a
\* development marker written without dot or without number); strings that
\* it rejects.
Parts == 0..MaxPart
DevNums == 0..MaxDev
FinalVersions == {FormatFinal(x, y, z) : x \in Parts, y \in Parts, z \in Parts}
DevVersions ==
    {FormatDev(x, y, z, n) : x \in Parts, y \in Parts, z \in Parts, n \in DevNums}
OtherVersions ==
    { <<Num(1), Dot, Num(0)>>,
      <<Num(1), Dot, Num(0), Dot, Num(0), Dot, Num(0)>>,
      <<Num(1), Dot, Num(0), Dot, Num(0), Rc, Num(1)>>,
      <<Num(1), Dot, Num(0), Dot, Num(0), Rc, Num(1), Dot, Dev, Num(1)>>,
      <<Num(1), Dot, Num(0), Dot, Num(0), Dev, Num(1)>>,
      <<Num(1), Dot, Num(0), Dot, Num(0), Dot, Dev>> }
NotVersions ==
    { <<>>, <<Junk>>, <<Dev, Num(1)>>,
      <<Num(1), Dot, Num(0), Dot, Num(0), Dot>>,
      <<Num(1), Dot, Dot, Num(0)>>,
      <<Num(1), Dot, Num(0), Dot, Num(0), Junk>> }
VersionStrings == FinalVersions \cup DevVersions \cup OtherVersions \cup NotVersions
BumpArgs ==
    [current_version : VersionStrings, bump_type : BumpTypes \cup {"invalid"}]

(***************************************************************************)
(* The specification: one operation is invoked and runs to its end.        *)
(***************************************************************************)
PathManifests ==
    [package_mode : PackageModes, path_deps : SeqsUpTo(RelPaths, MaxPathDeps),
     git_deps : {<<>>}]

PhaseArgs ==
    { [file |-> tg.file, directory |-> tg.directory, recursive |-> tg.recursive,
       test_mode |-> md, results_json |-> rj] :
         tg \in Targets, md \in Modes, rj \in {None, PyStr(<<"report.json">>)} }

MonoArgs ==
    [file : {PyStr(RepoManifest), PyStr(<<"repo", "gone", ManifestName>>)},
     build_dir : {None, PyStr(<<"out">>)}, cleanup : BOOLEAN]

InitTests ==
    /\ op = "run_tests_with_mode"
    /\ \/ /\ manifest \in Manifests
          /\ args \in TestArgs({MainTarget}, {"each"})
       \/ /\ manifest \in SmallManifests
          /\ args \in TestArgs(Targets, Modes \cup {"all"})

InitPackages ==
    /\ op \in {"build_packages", "publish_packages", "lock_packages",
               "install_packages"}
    /\ \/ manifest \in PathManifests /\ args = MainTarget
       \/ manifest \in SmallManifests /\ args \in Targets

InitPhases ==
    /\ op \in {"run_validate", "run_release"}
    /\ manifest \in SmallManifests
    /\ args \in PhaseArgs

InitMonorepo ==
    /\ op = "build_monorepo"
    /\ manifest \in Manifests
    /\ args \in MonoArgs

InitRewrite ==
    /\ op \in {"update_and_write_pyproject", "legacy_update_and_write_pyproject"}
    /\ manifest \in RewriteDocs
    /\ args \in RewriteArgs

InitRemoteUpdate ==
    /\ op \in {"remote_update_bulk", "legacy_remote_update_bulk"}
    /\ manifest \in SmallRewriteDocs
    /\ args \in BulkArgs

InitFind ==
    /\ op = "find_pyproject_files"
    /\ manifest = LeafManifest
    /\ args \in FindArgs

InitClassify ==
    /\ op = "check_if_aggregator"
    /\ manifest = LeafManifest
    /\ args \in PoetryTables

InitValidateVersion ==
    /\ op = "validate_new_version_is_not_lower"
    /\ manifest = LeafManifest
    /\ args \in [current_version : VersionStrings, new_version : VersionStrings]

\* Threshold strings: every sequence of at most MaxThresholdLen tokens.
ThresholdTokens ==
    {"gt", "lt", "eq", "ge", "le", "greater_than", ":", "60", "75", "abc"}
ThresholdArgs ==
    [value : {60, 75, 80}, threshold : SeqsUpTo(ThresholdTokens, MaxThresholdLen)]

\* Commands: the publish command of release and publish_packages with a
\* token as password, and arguments that hold the prefix elsewhere.
PublishCmd(pwd) ==
    <<<<"poetry">>, <<"publish">>, <<"-vv">>, <<"--username">>,
      <<"__token__">>, <<"--password">>, pwd>>
Passwords ==
    {<<"pypi-", "AgEI">>, <<"pypi-">>, <<"hunter2">>, <<"--token=", "pypi-", "AgEI">>}
Commands ==
    {PublishCmd(pwd) : pwd \in Passwords}
        \cup {<<<<"poetry">>, <<"build">>>>, <<<<"pypi-", "AgEI">>, <<"pypi-", "AgEI">>>>}
Emissions == SeqsUpTo({"line1", "line2"}, MaxLines)
RunCommandArgs ==
    [cmd : Commands, cwd : {<<"repo">>}, stream : BOOLEAN,
     stdout : Emissions, stderr : Emissions]

InitRunCommand ==
    /\ op = "run_command"
    /\ manifest = LeafManifest
    /\ args \in RunCommandArgs

\* The manifests of the working tree and what they hold as version.
ManifestPaths == {Join(d, <<ManifestName>>) : d \in StaticManifestDirs}
VersionContents ==
    {PyStr(FormatDev(1, 0, 0, 1)), PyStr(FormatFinal(1, 1, 0)), PyStr(<<Junk>>),
     NoVersionKey, UnparsableToml}
VersionsOnDisk ==
    {[p \in ManifestPaths |->
         IF p = Join(<<"repo", "sub_agg">>, <<ManifestName>>)
         THEN PyStr(FormatDev(1, 0, 0, 1))
         ELSE f[p]] :
       f \in [ManifestPaths \ {Join(<<"repo", "sub_agg">>, <<ManifestName>>)}
                 -> VersionContents]}
BumpOrSet ==
    {[bump |-> b, set_ver |-> None] :
        b \in {PyStr("patch"), PyStr("finalize"), PyStr("bogus")}}
      \cup {[bump |-> None, set_ver |-> v] :
              v \in {None, PyStr(FormatFinal(1, 0, 0)), PyStr(FormatFinal(1, 1, 0)),
                     PyStr(<<Junk>>)}}
BulkBumpArgs ==
    {[file |-> tg.file, directory |-> tg.directory, recursive |-> tg.recursive,
      bump |-> bs.bump, set_ver |-> bs.set_ver, versions |-> vs, readonly |-> ro] :
        tg \in Targets, bs \in BumpOrSet, vs \in VersionsOnDisk,
        ro \in {{}, {Join(<<"repo", "pkg_a">>, <<ManifestName>>)}}}

InitBulkBump ==
    /\ op = "bulk_bump_or_set_version"
    /\ manifest = LeafManifest
    /\ args \in BulkBumpArgs

\* Git dependencies given to _test_git_deps: none, one, or one followed by
\* any other.
TestGitDepsArgs ==
    [git_deps : {<<>>, <<OneGitDep>>} \cup {<<OneGitDep, d>> : d \in GitDeps},
     cleanup : BOOLEAN]

InitTestGitDeps ==
    /\ op = "test_git_deps"
    /\ manifest = LeafManifest
    /\ args \in TestGitDepsArgs

InitBumpChain ==
    /\ op = "bump_chain"
    /\ manifest = LeafManifest
    /\ args \in [current_version : FinalVersions \cup DevVersions]

AnalyzeThresholds ==
    {None, PyStr(<<>>), PyStr(<<"ge", ":", "75">>), PyStr(<<"le", ":", "60">>),
     PyStr(<<"eq", ":", "60">>), PyStr(<<"75">>)}
AnalyzeArgs ==
    [report : Reports, required_passed : AnalyzeThresholds,
     required_skipped : AnalyzeThresholds, file_path : {<<"report.json">>}]

InitAnalyze ==
    /\ op = "analyze_test_file"
    /\ manifest = LeafManifest
    /\ args \in AnalyzeArgs

InitThreshold ==
    /\ op = "evaluate_threshold"
    /\ manifest = LeafManifest
    /\ args \in ThresholdArgs

InitBump ==
    /\ op = "bump_version"
    /\ manifest = LeafManifest
    /\ args \in BumpArgs

Init ==
    /\ pc = "start"
    /\ cmds = <<>>
    /\ fs = {}
    /\ ret = None
    /\ readers = NoReaders
    /\ \/ InitTests
       \/ InitPackages
       \/ InitPhases
       \/ InitMonorepo
       \/ InitRewrite
       \/ InitRemoteUpdate
       \/ InitFind
       \/ InitClassify
       \/ InitBump
       \/ InitThreshold
       \/ InitValidateVersion
       \/ InitAnalyze
       \/ InitRunCommand
       \/ InitBulkBump
       \/ InitBumpChain
       \/ InitTestGitDeps

RunTestsWithMode ==
    /\ pc = "start"
    /\ op = "run_tests_with_mode"
    /\ \E r \in run_tests_with_mode(manifest, args, InitExec) :
          /\ cmds' = r.s.cmds
          /\ fs' = r.s.tmp
          /\ ret' = r.value
    /\ pc' = "returned"
    /\ UNCHANGED <<op, args, manifest, readers>>

LockPackages ==
    /\ pc = "start"
    /\ op = "lock_packages"
    /\ \E r \in lock_packages(manifest, args, InitExec) :
          /\ cmds' = r.s.cmds
          /\ fs' = r.s.tmp
          /\ ret' = PyBool(r.value)
    /\ pc' = "returned"
    /\ UNCHANGED <<op, args, manifest, readers>>

InstallPackages ==
    /\ pc = "start"
    /\ op = "install_packages"
    /\ \E r \in install_packages(manifest, args, InitExec) :
          /\ cmds' = r.s.cmds
          /\ fs' = r.s.tmp
          /\ ret' = PyBool(r.value)
    /\ pc' = "returned"
    /\ UNCHANGED <<op, args, manifest, readers>>

BuildPackages ==
    /\ pc = "start"
    /\ op = "build_packages"
    /\ \E r \in build_packages(manifest, args, InitExec) :
          /\ cmds' = r.s.cmds
          /\ fs' = r.s.tmp
          /\ ret' = PyBool(r.value)
    /\ pc' = "returned"
    /\ UNCHANGED <<op, args, manifest, readers>>

PublishPackages ==
    /\ pc = "start"
    /\ op = "publish_packages"
    /\ \E r \in publish_packages(manifest, args, InitExec) :
          /\ cmds' = r.s.cmds
          /\ fs' = r.s.tmp
          /\ ret' = PyBool(r.value)
    /\ pc' = "returned"
    /\ UNCHANGED <<op, args, manifest, readers>>

RunValidate ==
    /\ pc = "start"
    /\ op = "run_validate"
    /\ \E v \in run_validate(manifest, args, InitExec) :
          /\ cmds' = v.s.cmds
          /\ fs' = v.s.tmp
          /\ ret' = v.value
          /\ pc' = IF v.exit THEN "exit1" ELSE "returned"
    /\ UNCHANGED <<op, args, manifest, readers>>

RunRelease ==
    /\ pc = "start"
    /\ op = "run_release"
    /\ \E r \in run_release(manifest, args, InitExec) :
          /\ cmds' = r.s.cmds
          /\ fs' = r.s.tmp
          /\ pc' = r.pc
    /\ UNCHANGED <<op, args, manifest, readers, ret>>

BuildMonorepo ==
    /\ pc = "start"
    /\ op = "build_monorepo"
    /\ \E r \in build_monorepo(manifest, args, InitExec) :
          /\ cmds' = r.s.cmds
          /\ fs' = r.s.tmp
          /\ pc' = r.pc
    /\ UNCHANGED <<op, args, manifest, readers, ret>>

UpdateAndWritePyproject ==
    /\ pc = "start"
    /\ op = "update_and_write_pyproject"
    /\ \E r \in update_and_write_pyproject(manifest, args.remote, InitExec,
                    args.input_file_path, args.output_file_path) :
          /\ cmds' = r.s.cmds
          /\ fs' = r.s.tmp
          /\ ret' = PyBool(r.value)
    /\ pc' = "returned"
    /\ UNCHANGED <<op, args, manifest, readers>>

LegacyUpdateAndWritePyproject ==
    /\ pc = "start"
    /\ op = "legacy_update_and_write_pyproject"
    /\ \E r \in legacy_update_and_write_pyproject(manifest, args.remote, InitExec,
                    args.input_file_path, args.output_file_path) :
          /\ cmds' = r.s.cmds
          /\ fs' = r.s.tmp
          /\ ret' = PyBool(r.value)
    /\ pc' = "returned"
    /\ UNCHANGED <<op, args, manifest, readers>>

RemoteUpdateBulk ==
    /\ pc = "start"
    /\ op = "remote_update_bulk"
    /\ \E r \in remote_update_bulk(manifest, args, args.remote, InitExec) :
          /\ cmds' = r.s.cmds
          /\ fs' = r.s.tmp
          /\ ret' = r.value
    /\ pc' = "returned"
    /\ UNCHANGED <<op, args, manifest, readers>>

LegacyRemoteUpdateBulk ==
    /\ pc = "start"
    /\ op = "legacy_remote_update_bulk"
    /\ \E r \in legacy_remote_update_bulk(manifest, args, args.remote, InitExec) :
          /\ cmds' = r.s.cmds
          /\ fs' = r.s.tmp
          /\ ret' = r.value
    /\ pc' = "returned"
    /\ UNCHANGED <<op, args, manifest, readers>>

\* The rewrite is called a second time on the manifest that the first call
\* rewrote in place.
WrittenInPlace ==
    /\ pc = "returned"
    /\ args.output_file_path = None
    /\ cmds # <<>>
    /\ cmds[Len(cmds)].kind = "write"
    /\ cmds[Len(cmds)].rc = 0
\* parse() of the text on disk.
WrittenDoc == cmds[Len(cmds)].arg[1].v

UpdateAndWriteAgain ==
    /\ op = "update_and_write_pyproject"
    /\ WrittenInPlace
    /\ \E r \in update_and_write_pyproject(WrittenDoc, args.remote,
                    [cmds |-> cmds, tmp |-> fs], args.input_file_path, None) :
          /\ cmds' = r.s.cmds
          /\ fs' = r.s.tmp
          /\ ret' = PyBool(r.value)
    /\ pc' = "again"
    /\ UNCHANGED <<op, args, manifest, readers>>

LegacyUpdateAndWriteAgain ==
    /\ op = "legacy_update_and_write_pyproject"
    /\ WrittenInPlace
    /\ \E r \in legacy_update_and_write_pyproject(WrittenDoc, args.remote,
                    [cmds |-> cmds, tmp |-> fs], args.input_file_path, None) :
          /\ cmds' = r.s.cmds
          /\ fs' = r.s.tmp
          /\ ret' = PyBool(r.value)
    /\ pc' = "again"
    /\ UNCHANGED <<op, args, manifest, readers>>

\* A list of paths, or the exception raised.
PyList(v) == [t |-> "list", v |-> v]

FindPyprojectFiles ==
    /\ pc = "start"
    /\ op = "find_pyproject_files"
    /\ LET found == find_pyproject_files(args.file, args.directory, args.recursive)
       IN  /\ ret' = IF found.ok THEN PyList(found.files) ELSE PyRaise(found.exc)
           /\ pc' = IF found.ok THEN "returned" ELSE "raised"
    /\ UNCHANGED <<op, args, manifest, readers, cmds, fs>>

CheckIfAggregator ==
    /\ pc = "start"
    /\ op = "check_if_aggregator"
    /\ ret' = aggregator_and_name(args)
    /\ pc' = "returned"
    /\ UNCHANGED <<op, args, manifest, readers, cmds, fs>>

BumpVersion ==
    /\ pc = "start"
    /\ op = "bump_version"
    /\ LET new_version == bump_version(args.current_version, args.bump_type)
       IN  /\ ret' = new_version
           /\ pc' = IF new_version.t = "raise" THEN "raised" ELSE "returned"
    /\ UNCHANGED <<op, args, manifest, readers, cmds, fs>>

ValidateNewVersionIsNotLower ==
    /\ pc = "start"
    /\ op = "validate_new_version_is_not_lower"
    /\ LET r == validate_new_version_is_not_lower(args.current_version,
                                                  args.new_version)
       IN  /\ ret' = r
           /\ pc' = IF r.t = "raise" THEN "raised" ELSE "returned"
    /\ UNCHANGED <<op, args, manifest, readers, cmds, fs>>

EvaluateThreshold ==
    /\ pc = "start"
    /\ op = "evaluate_threshold"
    /\ LET r == evaluate_threshold(args.value, args.threshold)
       IN  /\ ret' = r
           /\ pc' = IF r.t = "raise" THEN "raised" ELSE "returned"
    /\ UNCHANGED <<op, args, manifest, readers, cmds, fs>>

\* run_command up to the start of the reader threads, or, without
\* streaming, to its return of what subprocess.run captured.
RunCommand ==
    /\ pc = "start"
    /\ op = "run_command"
    /\ \E rc \in ExitCodes :
         LET s == LogAndSpawn(InitExec, args.cmd, args.cwd, rc)
         IN  /\ cmds' = s.cmds
             /\ IF args.stream
                THEN /\ pc' = "streaming"
                     /\ readers' = [out |-> NewReader, err |-> NewReader]
                     /\ ret' = ret
                ELSE /\ pc' = "returned"
                     /\ readers' = readers
                     /\ ret' = PyTuple(<<rc, args.stdout, args.stderr>>)
    /\ UNCHANGED <<op, args, manifest, fs>>

\* A turn of the thread that reads process.stdout.
StdoutThread ==
    /\ pc = "streaming"
    /\ readers.out.at = "running"
    /\ readers' = [readers EXCEPT !.out = stream_reader(@, args.stdout)]
    /\ UNCHANGED <<op, pc, args, manifest, cmds, fs, ret>>

\* A turn of the thread that reads process.stderr.
StderrThread ==
    /\ pc = "streaming"
    /\ readers.err.at = "running"
    /\ readers' = [readers EXCEPT !.err = stream_reader(@, args.stderr)]
    /\ UNCHANGED <<op, pc, args, manifest, cmds, fs, ret>>

\* Both joins return, process.wait() gives the exit code and the queues
\* are emptied into the result.
RunCommandJoin ==
    /\ pc = "streaming"
    /\ readers.out.at # "running"
    /\ readers.err.at # "running"
    /\ ret' = PyTuple(<<cmds[Len(cmds)].rc, readers.out.q, readers.err.q>>)
    /\ pc' = "returned"
    /\ UNCHANGED <<op, args, manifest, cmds, fs, readers>>

\* The manifests' versions at the end are kept in fs.
BulkBumpOrSetVersion ==
    /\ pc = "start"
    /\ op = "bulk_bump_or_set_version"
    /\ LET r == bulk_bump_or_set_version(args)
       IN  /\ fs' = r.versions
           /\ ret' = r.value
           /\ pc' = IF r.value.t = "raise" THEN "raised" ELSE "returned"
    /\ UNCHANGED <<op, args, manifest, readers, cmds>>

\* _test_git_deps called with an empty list of details.
TestGitDeps ==
    /\ pc = "start"
    /\ op = "test_git_deps"
    /\ \E g \in test_git_deps(args.git_deps,
                   [s |-> InitExec, details |-> <<>>, all_passed |-> TRUE],
                   args.cleanup) :
          /\ cmds' = g.t.s.cmds
          /\ fs' = g.t.s.tmp
          /\ ret' = PyTuple(<<PyBool(g.all_passed), g.build_root>>)
    /\ pc' = "returned"
    /\ UNCHANGED <<op, args, manifest, readers>>

\* bump_version applied to the version the previous bump returned (to the
\* given version the first time) and followed, as in
\* bulk_bump_or_set_version, by the downgrade check.
BumpChain ==
    /\ op = "bump_chain"
    /\ pc \in {"start", "returned"}
    /\ Len(cmds) < MaxBumps
    /\ \E bump_type \in BumpTypes :
         LET current_ver == IF cmds = <<>> THEN args.current_version ELSE ret.v
             new_ver == bump_version(current_ver, bump_type)
             checked == IF new_ver.t = "raise" THEN new_ver
                        ELSE validate_new_version_is_not_lower(current_ver,
                                                               new_ver.v)
         IN  /\ cmds' = Append(cmds, Event("bump", <<>>,
                                     IF checked.t = "raise" THEN 1 ELSE 0,
                                     [bump_type |-> bump_type,
                                      current_ver |-> current_ver,
                                      new_ver |-> new_ver, checked |-> checked]))
             /\ ret' = IF checked.t = "raise" THEN checked ELSE new_ver
             /\ pc' = IF checked.t = "raise" THEN "raised" ELSE "returned"
    /\ UNCHANGED <<op, args, manifest, readers, fs>>

AnalyzeTestFile ==
    /\ pc = "start"
    /\ op = "analyze_test_file"
    /\ LET r == AnalyzeReport(args.report, args.required_passed,
                              args.required_skipped)
       IN  /\ ret' = r
           /\ pc' = IF r.t = "raise" THEN "raised" ELSE "returned"
    /\ UNCHANGED <<op, args, manifest, readers, cmds, fs>>

Next ==
    \/ BumpChain
    \/ TestGitDeps
    \/ LockPackages
    \/ InstallPackages
    \/ BulkBumpOrSetVersion
    \/ RunCommand
    \/ StdoutThread
    \/ StderrThread
    \/ RunCommandJoin
    \/ AnalyzeTestFile
    \/ EvaluateThreshold
    \/ ValidateNewVersionIsNotLower
    \/ BumpVersion
    \/ CheckIfAggregator
    \/ FindPyprojectFiles
    \/ UpdateAndWriteAgain
    \/ LegacyUpdateAndWriteAgain
    \/ UpdateAndWritePyproject
    \/ LegacyUpdateAndWritePyproject
    \/ RemoteUpdateBulk
    \/ LegacyRemoteUpdateBulk
    \/ RunTestsWithMode
    \/ BuildPackages
    \/ PublishPackages
    \/ RunValidate
    \/ RunRelease
    \/ BuildMonorepo

Spec == Init /\ [][Next]_vars

(***************************************************************************)
(* Observations on a finished run                                          *)
(***************************************************************************)
Range(f) == {f[i] : i \in DOMAIN f}
AllOk(details) == \A i \in 1..Len(details) : details[i].success

IsPytest(e) == e.kind = "pytest"
IsClone(e) == e.kind = "git_clone"
PytestCmds == SelectSeq(cmds, IsPytest)
CloneCmds == SelectSeq(cmds, IsClone)

Found == find_pyproject_files(args.file, args.directory, args.recursive)
Primary == ReadManifest(manifest, Found.files[1])
PrimaryDir == Dirname(Found.files[1])

\* A finished each-mode run of run_tests_with_mode that got past discovery.
EachRun ==
    /\ op = "run_tests_with_mode"
    /\ pc = "returned"
    /\ args.mode = "each"
    /\ Found.ok

\* The path dependencies whose directory exists, in declaration order.
ExistingDir(rel) == AbsPath(Join(PrimaryDir, rel)) \in StaticDirs
ValidPathItems ==
    LET valid == SelectSeq(Primary.path_deps, ExistingDir)
    IN  [i \in 1..Len(valid) |-> Join(PrimaryDir, valid[i])]

\* C1: in mode "each", the path dependencies whose directory exists are tested
\* once each, in declaration order, whatever the earlier results; `details`
\* holds one entry per item with that item's own exit status; and (no Git
\* dependencies being declared) success is true iff every declared directory
\* exists and every item succeeded.
C1_EachTestsEveryItem ==
    EachRun =>
        /\ Len(PytestCmds) >= Len(ValidPathItems)
        /\ Len(ret.details) >= Len(ValidPathItems)
        /\ \A i \in 1..Len(ValidPathItems) :
              /\ PytestCmds[i].cwd = ValidPathItems[i]
              /\ ret.details[i] = [success |-> (PytestCmds[i].rc = 0),
                                   returncode |-> PytestCmds[i].rc,
                                   directory |-> ValidPathItems[i]]
        /\ ret.success => AllOk(ret.details)
        /\ Primary.git_deps = <<>> =>
              /\ Len(PytestCmds) = Len(ValidPathItems)
              /\ Len(ret.details) = Len(ValidPathItems)
              /\ ret.success <=>
                    /\ Len(ValidPathItems) = Len(Primary.path_deps)
                    /\ AllOk(ret.details)

\* Three distinct items, the second of which fails.
C1_Witness ==
    /\ EachRun
    /\ Primary.git_deps = <<>>
    /\ Len(Primary.path_deps) = 3
    /\ Cardinality(Range(Primary.path_deps)) = 3
    /\ Len(ret.details) = 3
    /\ ret.details[1].success
    /\ ~ret.details[2].success
    /\ ret.details[3].success
    /\ ~ret.success

\* The (url, branch) pairs of the primary manifest's Git dependencies.
UrlBranch(d) == <<d.git, IF d.branch = None THEN MainBranch ELSE d.branch.v>>
\* A finished run of an operation that clones the Git dependencies.
CloneRun == EachRun \/ (op = "build_monorepo" /\ pc = "returned")
RunGitDeps ==
    IF op = "build_monorepo"
    THEN ReadManifest(manifest, AbsPath(args.file.v)).git_deps
    ELSE Primary.git_deps
UrlBranchPairs == {UrlBranch(d) : d \in Range(RunGitDeps)}
DepsOfPair(pair) ==
    {i \in 1..Len(Primary.git_deps) : UrlBranch(Primary.git_deps[i]) = pair}
SubdirOf(d) == IF d.subdirectory = None THEN <<>> ELSE SplitSlash(d.subdirectory.v)
\* The dependency's sub-directory exists in the clone and holds a manifest.
ResolvesInClone(d) == SubdirOf(d) \in RepoTreeManifestDirs

TestsAt(path) == Cardinality({i \in 1..Len(cmds) :
                    cmds[i].kind = "pytest" /\ AbsPath(cmds[i].cwd) = path})
DetailsAt(path) == Cardinality({i \in 1..Len(ret.details) :
                    AbsPath(ret.details[i].directory) = path})
DepsAt(pair, subdir) == Cardinality({i \in DepsOfPair(pair) :
                    SubdirOf(Primary.git_deps[i]) = subdir})

\* Every resolvable dependency of a successfully cloned group is tested once
\* and reported once.
ClonedGroupTested(e) ==
    LET pair == <<e.arg[1], e.arg[2]>> IN
    \A i \in DepsOfPair(pair) :
        LET d == Primary.git_deps[i]
            path == Join(e.arg[3], SubdirOf(d))
        IN  ResolvesInClone(d) =>
                /\ TestsAt(path) = DepsAt(pair, SubdirOf(d))
                /\ DetailsAt(path) = DepsAt(pair, SubdirOf(d))

\* C7: in mode "each", when the clone of a (url, branch) group exits 0, every
\* dependency of the group whose sub-directory exists in the clone and holds a
\* manifest gets exactly one test run and one `details` entry.
C7_ClonedDepsTested ==
    EachRun =>
        \A k \in 1..Len(CloneCmds) :
            CloneCmds[k].rc = 0 => ClonedGroupTested(CloneCmds[k])

C9_FreshCloneDirs ==
    CloneRun =>
        \A j, k \in 1..Len(CloneCmds) :
            j # k => CloneCmds[j].arg[3] # CloneCmds[k].arg[3]

\* C10: a failed clone makes the run unsuccessful and skips only its own
\* group: every group is still cloned, and the sub-packages of every group
\* whose clone succeeded are still tested.
C10_FailedCloneSkipsOnlyItsGroup ==
    EachRun =>
        /\ (\E k \in 1..Len(CloneCmds) : CloneCmds[k].rc # 0) => ~ret.success
        /\ {<<CloneCmds[k].arg[1], CloneCmds[k].arg[2]>> : k \in 1..Len(CloneCmds)}
              = UrlBranchPairs
        /\ \A k \in 1..Len(CloneCmds) :
              (CloneCmds[k].rc = 0 /\ \E j \in 1..(k - 1) : CloneCmds[j].rc # 0)
                  => ClonedGroupTested(CloneCmds[k])

(***************************************************************************)
(* Release, build and publish                                              *)
(***************************************************************************)
\* A finished each-mode release that found its manifest.
EachRelease ==
    /\ op = "run_release"
    /\ pc # "start"
    /\ args.test_mode = "each"
    /\ Found.ok

IsReleaseBuild(e) == e.kind = "poetry_build" /\ e.arg = <<"release">>
IsReleasePublish(e) == e.kind = "poetry_publish" /\ e.arg = <<"release">>
EventsOf(P(_)) == {i \in 1..Len(cmds) : P(cmds[i])}
DirsOf(P(_)) == {AbsPath(cmds[i].cwd) : i \in EventsOf(P)}

PassedTest(e) == e.kind = "pytest" /\ e.rc = 0
BuildOk(e) == IsReleaseBuild(e) /\ e.rc = 0
OwnDir == IF check_if_aggregator(manifest, Found.files[1]) THEN {PrimaryDir} ELSE {}

\* C2: in an each-mode release every work item has a test result, a failing
\* item does not stop the release, and build + publish is attempted in exactly
\* the directories whose test succeeded, the aggregator's own excepted.
C2_ReleasePublishesPassedItems ==
    EachRelease =>
        /\ \A i \in 1..Len(ValidPathItems) :
              AbsPath(ValidPathItems[i]) \in DirsOf(IsPytest)
        /\ DirsOf(IsReleaseBuild) = DirsOf(PassedTest) \ OwnDir
        /\ DirsOf(IsReleasePublish) = DirsOf(BuildOk)

IsRootEvent(e, kind) == e.kind = kind /\ e.cwd = TestRoot
InClone(e) == IsPrefix(TestRoot, e.cwd)

\* C3: in an each-mode release with Git dependencies the test stage creates
\* the clone root, and the root is not removed before the last build or
\* publish command of the release has run.
C3_CloneRootOutlivesPublish ==
    (EachRelease /\ Primary.git_deps # <<>>) =>
        /\ \E i \in 1..Len(cmds) : IsRootEvent(cmds[i], "mkdtemp")
        /\ \A i, j \in 1..Len(cmds) :
              (IsRootEvent(cmds[i], "rmtree")
                 /\ (IsReleaseBuild(cmds[j]) \/ IsReleasePublish(cmds[j])))
                  => j < i

\* C4: in an each-mode release with Git dependencies the remote update is
\* run recursively on the clone root of the test stage, before anything is
\* published from a clone.
C4_CloneRootHandedToRemoteUpdate ==
    (EachRelease /\ Primary.git_deps # <<>>) =>
        \E i \in 1..Len(cmds) :
            /\ IsRootEvent(cmds[i], "remote_update")
            /\ cmds[i].arg = <<None, TRUE>>
            /\ \A j \in 1..Len(cmds) :
                  (IsReleasePublish(cmds[j]) /\ InClone(cmds[j])) => i < j

\* The directories of the working tree whose manifest is an aggregator.
AggregatorDirs ==
    {d \in StaticManifestDirs :
        check_if_aggregator(manifest, Join(d, <<ManifestName>>))}
IsBuildOrPublish(e) == e.kind \in {"poetry_build", "poetry_publish"}

\* C5: build_packages, publish_packages and the each-mode release never run
\* a build or publish command in the directory of an aggregator manifest.
C5_AggregatorNeverBuilt ==
    (op \in {"build_packages", "publish_packages"} \/ EachRelease) =>
        DirsOf(IsBuildOrPublish) \cap AggregatorDirs = {}

\* A finished run of one of the stages over an aggregator's dependencies.
AggregatorStageRun ==
    /\ \/ EachRun
       \/ op \in {"build_packages", "publish_packages"} /\ pc = "returned"
    /\ Found.ok
    /\ check_if_aggregator(manifest, Found.files[1])
StageSuccess == IF op = "run_tests_with_mode" THEN ret.success ELSE ret.v
IsStageCmd(e) == e.kind \in {"pytest", "poetry_build", "poetry_publish"}
DepDir(rel) == AbsPath(Join(PrimaryDir, rel))

\* C6: a path dependency of an aggregator whose target directory has no
\* manifest makes the stage unsuccessful and no command is run in it, while
\* every sibling dependency that has a manifest is still processed.
C6_InvalidPathDepExcluded ==
    AggregatorStageRun =>
        \A i \in 1..Len(Primary.path_deps) :
            DepDir(Primary.path_deps[i]) \notin StaticManifestDirs =>
                /\ ~StageSuccess
                /\ DepDir(Primary.path_deps[i]) \notin DirsOf(IsStageCmd)
                /\ \A j \in 1..Len(Primary.path_deps) :
                      DepDir(Primary.path_deps[j]) \in StaticManifestDirs
                          => DepDir(Primary.path_deps[j]) \in DirsOf(IsStageCmd)

(***************************************************************************)
(* Package stages: build and publish                                       *)
(***************************************************************************)
\* A finished run of build_packages that got past discovery.
BuildRun == op = "build_packages" /\ pc = "returned" /\ Found.ok

\* The path dependencies of an aggregator manifest that are directories
\* holding a manifest, and the items a manifest resolves to.
ValidDepsOf(file) ==
    SelectSeq(ReadManifest(manifest, file).path_deps,
              LAMBDA rel : AbsPath(Join(Dirname(file), rel)) \in StaticManifestDirs)
ItemsOf(file) ==
    IF check_if_aggregator(manifest, file)
    THEN [i \in 1..Len(ValidDepsOf(file)) |-> Join(Dirname(file), ValidDepsOf(file)[i])]
    ELSE <<Dirname(file)>>
RECURSIVE ItemsFrom(_, _)
ItemsFrom(files, i) ==
    IF i > Len(files) THEN <<>> ELSE ItemsOf(files[i]) \o ItemsFrom(files, i + 1)
ResolvedItems == ItemsFrom(Found.files, 1)
NoInvalidDep ==
    \A i \in 1..Len(Found.files) :
        check_if_aggregator(manifest, Found.files[i]) =>
            Len(ValidDepsOf(Found.files[i]))
                = Len(ReadManifest(manifest, Found.files[i]).path_deps)

\* C11: build_packages runs one build per resolved item, in order, whatever
\* the earlier builds returned, and returns true iff every build exited 0 and
\* no path dependency was invalid.
C11_BuildAttemptsEveryItem ==
    BuildRun =>
        /\ [i \in 1..Len(cmds) |-> cmds[i].cwd] = ResolvedItems
        /\ \A i \in 1..Len(cmds) : cmds[i].kind = "poetry_build"
        /\ ret.v <=> (NoInvalidDep /\ \A i \in 1..Len(cmds) : cmds[i].rc = 0)

\* Three items, the first build fails and the later ones are still run.
C11_Witness ==
    /\ BuildRun
    /\ Len(ResolvedItems) = 3
    /\ Len(cmds) = 3
    /\ cmds[1].rc = 1
    /\ cmds[2].rc = 0
    /\ cmds[3].rc = 0
    /\ ~ret.v

\* A finished run of publish_packages that got past discovery.
PublishRun == op = "publish_packages" /\ pc = "returned" /\ Found.ok
\* The build command of an item of the publish stage.
IsItemBuild(e) ==
    e.kind = "poetry_build" /\ e.arg \in {<<"publish_ops">>, <<"release">>}
IsItemPublish(e) ==
    e.kind = "poetry_publish" /\ e.arg \in {<<"publish_ops">>, <<"release">>}
PublishFollows(i) ==
    /\ i < Len(cmds)
    /\ IsItemPublish(cmds[i + 1])
    /\ cmds[i + 1].cwd = cmds[i].cwd

\* C12: in the publish stage every resolved item is built, and an item's
\* publish command is run iff its build command exited 0.
C12_PublishIffBuildOk ==
    (PublishRun \/ EachRelease) =>
        /\ PublishRun =>
              [i \in 1..Len(SelectSeq(cmds, IsItemBuild)) |->
                  SelectSeq(cmds, IsItemBuild)[i].cwd] = ResolvedItems
        /\ \A i \in 1..Len(cmds) :
              /\ IsItemBuild(cmds[i]) => (cmds[i].rc = 0 <=> PublishFollows(i))
              /\ IsItemPublish(cmds[i]) =>
                    i > 1 /\ IsItemBuild(cmds[i - 1]) /\ cmds[i - 1].rc = 0

(***************************************************************************)
(* The validate phase                                                      *)
(***************************************************************************)
ValidateRun == op = "run_validate" /\ pc # "start"

StageNames == <<"lock", "build", "install", "test", "analyze">>
StageIndex(name) == CHOOSE k \in 1..Len(StageNames) : StageNames[k] = name
IsReport(e) == e.kind = "stage_result"
\* The stage an entry of the history belongs to.
StageOf(e) ==
    CASE e.kind = "poetry_lock" -> 1
      [] e.kind = "poetry_build" -> 2
      [] e.kind = "poetry_install" -> 3
      [] e.kind \in {"pytest", "git_clone", "mkdtemp", "rmtree"} -> 4
      [] e.kind = "analyze" -> 5
      [] IsReport(e) -> StageIndex(e.arg[1])
ReportedOkBefore(k, i) ==
    \E j \in 1..(i - 1) :
        IsReport(cmds[j]) /\ StageOf(cmds[j]) = k /\ cmds[j].rc = 0

C14_ValidateSucceedsWhenCommandsDo ==
    (/\ ValidateRun
     /\ Found.ok
     /\ \A i \in 1..Len(cmds) : ~IsReport(cmds[i]) => cmds[i].rc = 0)
        => /\ pc = "returned"
           /\ \A k \in 1..4 : ReportedOkBefore(k, Len(cmds) + 1)

(***************************************************************************)
(* Release and remote update                                               *)
(***************************************************************************)
SingleRelease ==
    /\ op = "run_release"
    /\ pc # "start"
    /\ args.test_mode # "each"
    /\ Found.ok
IsRemoteUpdate(e) == e.kind = "remote_update"
\* The history of a release: the validation, up to the last stage result,
\* and what the release did after it.
LastReport ==
    IF \E i \in 1..Len(cmds) : IsReport(cmds[i])
    THEN CHOOSE i \in 1..Len(cmds) :
            IsReport(cmds[i]) /\ \A j \in (i + 1)..Len(cmds) : ~IsReport(cmds[j])
    ELSE 0
ReleasePart == SubSeq(cmds, LastReport + 1, Len(cmds))
ValidationFailed == \E i \in 1..Len(cmds) : IsReport(cmds[i]) /\ cmds[i].rc # 0
\* Every command that the validation ran exited 0.
ValidationCommandsOk ==
    \A i \in 1..LastReport : ~IsReport(cmds[i]) => cmds[i].rc = 0
InRelease(P(_)) == \E i \in 1..Len(ReleasePart) : P(ReleasePart[i])
IsBuildCmd(e) == e.kind = "poetry_build"
IsFailedBuild(e) == e.kind = "poetry_build" /\ e.rc # 0
IsPublishCmd(e) == e.kind = "poetry_publish"

\* C15: in a single / monorepo release a failed validation is followed by
\* no remote update, build or publish; a failed build is followed by no
\* publish; and when every command of the validation exits 0 the release
\* performs the remote update and, whatever its outcome, goes on to build.
C15_SingleReleaseGating ==
    SingleRelease =>
        /\ ValidationFailed => ReleasePart = <<>>
        /\ InRelease(IsFailedBuild) => ~InRelease(IsPublishCmd)
        /\ ValidationCommandsOk =>
              /\ InRelease(IsRemoteUpdate)
              /\ pc # "raised"
              /\ ResolvedItems # <<>> => InRelease(IsBuildCmd)

\* C16: a release rewrites remote versions in exactly one location: when its
\* validation commands all exit 0, a single / monorepo release calls the
\* remote update once, on the main file / directory, and an each-mode release
\* with Git dependencies calls it once, on the clone root; an each-mode
\* release never rewrites the primary manifest.
C16_RemoteUpdateOneLocation ==
    (op = "run_release" /\ pc # "start" /\ Found.ok) =>
        /\ Cardinality(EventsOf(IsRemoteUpdate)) <= 1
        /\ \A i \in EventsOf(IsRemoteUpdate) :
              IF args.test_mode = "each"
              THEN cmds[i].cwd = TestRoot /\ cmds[i].arg = <<None, TRUE>>
              ELSE /\ cmds[i].cwd = GetOr(args.directory, <<>>)
                   /\ cmds[i].arg = <<args.file, args.recursive>>
        /\ args.test_mode = "each" =>
              \A i \in 1..Len(cmds) :
                  cmds[i].kind = "write" => cmds[i].cwd # Found.files[1]
        /\ (ValidationCommandsOk
              /\ (args.test_mode = "each" => Primary.git_deps # <<>>))
              => Cardinality(EventsOf(IsRemoteUpdate)) = 1

(***************************************************************************)
(* Remote update and rewriting                                             *)
(***************************************************************************)
BulkRun ==
    /\ op \in {"remote_update_bulk", "legacy_remote_update_bulk"}
    /\ pc = "returned"
IsRewrite(e) == e.kind = "rewrite"
IsWrite(e) == e.kind = "write"
Rewrites == SelectSeq(cmds, IsRewrite)
Writes == SelectSeq(cmds, IsWrite)
\* The k-th rewrite of the history succeeded: it wrote, and the write did
\* not fail, before the next rewrite began.
RewriteOk(k) ==
    LET at == {i \in 1..Len(cmds) :
                  /\ IsRewrite(cmds[i])
                  /\ Cardinality({j \in 1..i : IsRewrite(cmds[j])}) = k}
        i == CHOOSE i \in at : TRUE
    IN  \E j \in (i + 1)..Len(cmds) :
            /\ IsWrite(cmds[j]) /\ cmds[j].rc = 0
            /\ \A l \in (i + 1)..j : ~IsRewrite(cmds[l])
RewrittenInOrder ==
    [k \in 1..Len(Rewrites) |-> Rewrites[k].cwd] = Found.files

\* C17: remote_update_bulk calls the rewrite once per resolved target, in
\* resolver order and whatever the earlier targets' outcome, and returns an
\* aggregate {overall_success, results}: overall_success is the AND of the
\* per-file results, and results holds one record per target.
C17_BulkReturnsAggregate ==
    (BulkRun /\ Found.ok) =>
        /\ RewrittenInOrder
        /\ ret.t = "dict"
        /\ DOMAIN ret.v = {"overall_success", "results"}
        /\ Len(ret.v.results) = Len(Found.files)
        /\ \A k \in 1..Len(Found.files) :
              /\ ret.v.results[k].file = Found.files[k]
              /\ ret.v.results[k].success = RewriteOk(k)
        /\ ret.v.overall_success = \A k \in 1..Len(Found.files) : RewriteOk(k)

\* C18: in remote_update_bulk with an output path, when more than one
\* target resolves every target is rewritten in place and nothing is written
\* to the output path; when exactly one target resolves what is written goes
\* to the output path and the input manifest is not written.
C18_OutputOnlyForOneTarget ==
    (BulkRun /\ Found.ok /\ args.output # None) =>
        IF Len(Found.files) > 1
        THEN /\ \A k \in 1..Len(Rewrites) : Rewrites[k].arg = <<None>>
             /\ \A k \in 1..Len(Writes) :
                   /\ Writes[k].cwd # args.output.v
                   /\ Writes[k].cwd \in Range(Found.files)
        ELSE /\ \A k \in 1..Len(Rewrites) : Rewrites[k].arg = <<args.output>>
             /\ \A k \in 1..Len(Writes) :
                   /\ Writes[k].cwd = args.output.v
                   /\ Writes[k].cwd # Found.files[1]
C18_Witness ==
    /\ BulkRun /\ Found.ok /\ args.output # None
    /\ Len(Found.files) = 1
    /\ manifest.t = "doc" /\ manifest.poetry # None
    /\ Len(Writes) = 1 /\ Writes[1].rc = 0 /\ Writes[1].cwd = args.output.v
    /\ Writes[1].arg[1].t = "toml"

RewriteRun ==
    /\ op \in {"update_and_write_pyproject", "legacy_update_and_write_pyproject"}
    /\ pc = "returned"
\* The rewrite wrote a document: the dependencies before and after it.
Rewrote == RewriteRun /\ Len(Writes) = 1 /\ Writes[1].rc = 0
DepsBefore == manifest.poetry.dependencies
DepsAfter == Writes[1].arg[1].v.poetry.dependencies
GitSourced == {i \in 1..Len(DepsBefore) : IsGitDep(DepsBefore[i].details)}
Fetched ==
    {i \in GitSourced :
        fetch_remote_pyproject_version(args.remote, DepsBefore[i].details.v.git,
            DictGet(DepsBefore[i].details, "branch", MainBranch),
            DictGet(DepsBefore[i].details, "subdirectory", <<>>)) # None}
SourceKeys == {"git", "branch", "subdirectory", "path"}

\* C19: when a remote version is fetched for a Git dependency, the rewrite
\* replaces its entry by a plain constraint with version = "^<fetched>" and
\* without the git, branch, subdirectory and path keys.
C19_FetchedDepBecomesPlain ==
    Rewrote =>
        /\ Len(DepsAfter) = Len(DepsBefore)
        /\ \A i \in Fetched :
              /\ DepsAfter[i].name = DepsBefore[i].name
              /\ DepsAfter[i].details.t = "dict"
              /\ "version" \in DOMAIN DepsAfter[i].details.v
              /\ DepsAfter[i].details.v.version = Caret(PyStr(RemoteVersion))
              /\ DOMAIN DepsAfter[i].details.v \cap SourceKeys = {}

\* The entry carries optional = true.
CarriesOptional(details) ==
    /\ details.t = "dict"
    /\ "optional" \in DOMAIN details.v
    /\ details.v.optional = TRUE
\* C20: after a rewrite every Git-sourced dependency, fetched or not,
\* carries optional = true if and only if it was originally optional: its
\* entry said optional = true, or its name is listed in an extras group.
C20_OptionalIffOriginallyOptional ==
    Rewrote =>
        \A i \in GitSourced :
            CarriesOptional(DepsAfter[i].details)
                <=> originally_optional(DepsBefore[i].details,
                                        manifest.poetry.extras, DepsBefore[i].name)

(***************************************************************************)
(* Rewriting one manifest                                                  *)
(***************************************************************************)
IsFetch(e) == e.kind = "fetch"
Fetches == SelectSeq(cmds, IsFetch)
\* The rewrite read a manifest with a [tool.poetry] table.
ReadableInput ==
    /\ args.input_file_path = RepoManifest
    /\ manifest.t = "doc"
    /\ manifest.poetry # None
\* The Git-sourced dependencies, in file order.
GitSourcedSeq == SelectSeq(DepsBefore, LAMBDA dep : IsGitDep(dep.details))
\* The remote cannot give a version for this URL.
FetchMustFail(git_url) ==
    \/ git_url \notin GitHubUrls
    \/ args.remote[git_url] \in {"http_error", "garbage", "no_version"}

C22_RewriteIdempotent ==
    pc = "again" =>
        /\ Len(Writes) = 2
        /\ Writes[2].arg[1].v.poetry.dependencies
             = Writes[1].arg[1].v.poetry.dependencies
        /\ Writes[2].arg[1].v.poetry.extras = Writes[1].arg[1].v.poetry.extras
C22_Witness ==
    /\ pc = "again"
    /\ op = "update_and_write_pyproject"
    /\ Len(Fetches) = 4
    /\ Fetches[3].rc = 1 /\ Fetches[4].rc = 0
    /\ manifest.poetry.extras = PyDict(<<Group(<<"b", "ghost">>)>>)
    /\ Writes[2].rc = 0
    /\ Writes[2].arg[1].v.poetry # manifest.poetry

\* C23: rewriting a manifest without a Git-sourced dependency changes
\* nothing: no fetch is performed, every dependency entry is written as it
\* was read, and an absent extras section stays absent.
C23_NoGitDepNoChange ==
    (RewriteRun /\ ReadableInput /\ GitSourced = {}) =>
        /\ Fetches = <<>>
        /\ Len(Writes) = 1
        /\ Writes[1].arg[1].v.poetry.dependencies = DepsBefore
        /\ manifest.poetry.extras = None =>
              Writes[1].arg[1].v.poetry.extras = None
C23_Witness ==
    /\ Rewrote /\ ReadableInput /\ GitSourced = {}
    /\ op = "update_and_write_pyproject"
    /\ Len(DepsBefore) = 2
    /\ DepsBefore[1].details = PathDetails(<<"pkg_a">>)
    /\ DepsBefore[2].details = PlainDetails
    /\ manifest.poetry.extras = None
    /\ Writes[1].arg[1] = Dumps(manifest)

ExtrasBefore == manifest.poetry.extras
ExtrasAfter == Writes[1].arg[1].v.poetry.extras
\* C24: after a rewrite of a manifest that had an extras section, updated
\* or not, every member of every extras group is a key of the dependencies
\* table; a manifest that had no extras section does not gain one.
C24_ExtrasNameDependencies ==
    Rewrote =>
        /\ ExtrasBefore = None => ExtrasAfter = None
        /\ ExtrasBefore # None =>
              /\ ExtrasAfter # None
              /\ \A g \in 1..Len(ExtrasAfter.v) :
                    \A j \in 1..Len(ExtrasAfter.v[g].members) :
                        ExtrasAfter.v[g].members[j] \in DepNames(DepsAfter)

\* What makes the reading, the parsing or the validation of the input fail.
MissingInput == ~IsFile(fs, args.input_file_path)
UnparsableInput == ~MissingInput /\ manifest = Unparsable
NoToolPoetry == ~MissingInput /\ manifest.t = "doc" /\ manifest.poetry = None
WriteError == \E k \in 1..Len(Writes) : Writes[k].rc # 0

\* C25: update_and_write_pyproject returns a bool and never raises; it
\* returns False for a missing file, unparsable content, a missing
\* [tool.poetry] table and a write error; when reading, parsing or
\* validation fails nothing is written.
C25_RewriteReportsFailure ==
    RewriteRun =>
        /\ ret.t = "bool"
        /\ (MissingInput \/ UnparsableInput \/ NoToolPoetry) =>
              /\ ret = PyBool(FALSE)
              /\ Writes = <<>>
        /\ WriteError => ret = PyBool(FALSE)
        /\ ret = PyBool(TRUE) => Rewrote
C25_Witness ==
    /\ RewriteRun
    /\ op = "update_and_write_pyproject"
    /\ ReadableInput
    /\ WriteError
    /\ ret = PyBool(FALSE)

(***************************************************************************)
(* find_pyproject_files                                                    *)
(***************************************************************************)
FindRun == op = "find_pyproject_files" /\ pc # "start"
\* The manifests of the subtree of a directory.
ManifestsUnder(dir_path) ==
    {Join(d, <<ManifestName>>) : d \in {x \in StaticManifestDirs : IsPrefix(dir_path, x)}}
DirArg == AbsPath(args.directory.v)

\* C26: find_pyproject_files changes nothing and either raises or returns a
\* non-empty list: with a file, that file whatever the directory, or
\* FileNotFoundError when it is missing; else with a directory that does not
\* exist NotADirectoryError; else without recursion the directory's manifest
\* or FileNotFoundError; with recursion every manifest of the subtree, or
\* FileNotFoundError when there is none; with neither argument ValueError.
C26_FindPyprojectFiles ==
    FindRun =>
        /\ cmds = <<>> /\ fs = {}
        /\ ret.t \in {"list", "raise"}
        /\ ret.t = "list" => ret.v # <<>>
        /\ IF args.file # None
           THEN IF IsFile({}, args.file.v)
                THEN ret = PyList(<<AbsPath(args.file.v)>>)
                ELSE ret = PyRaise("FileNotFoundError")
           ELSE IF args.directory = None THEN ret = PyRaise("ValueError")
           ELSE IF DirArg \notin StaticDirs THEN ret = PyRaise("NotADirectoryError")
           ELSE IF ~args.recursive
           THEN IF DirArg \in StaticManifestDirs
                THEN ret = PyList(<<Join(DirArg, <<ManifestName>>)>>)
                ELSE ret = PyRaise("FileNotFoundError")
           ELSE IF ManifestsUnder(DirArg) = {}
           THEN ret = PyRaise("FileNotFoundError")
           ELSE /\ ret.t = "list"
                /\ Range(ret.v) = ManifestsUnder(DirArg)
                /\ Len(ret.v) = Cardinality(ManifestsUnder(DirArg))
C26_Witness ==
    /\ FindRun
    /\ args.file = None /\ args.directory = PyStr(RepoDir) /\ args.recursive
    /\ ret.t = "list" /\ Len(ret.v) = 4

(***************************************************************************)
(* The aggregator classifier                                               *)
(***************************************************************************)
\* "false" in every letter case.
FalseInAnyCase ==
    {s \in [1..5 -> {"f", "F", "a", "A", "l", "L", "s", "S", "e", "E"}] :
        /\ s[1] \in {"f", "F"} /\ s[2] \in {"a", "A"} /\ s[3] \in {"l", "L"}
        /\ s[4] \in {"s", "S"} /\ s[5] \in {"e", "E"}}
SaysFalse(package_mode) ==
    \/ package_mode = PyBool(FALSE)
    \/ package_mode.t = "str" /\ Len(package_mode.v) = 5
         /\ package_mode.v \in FalseInAnyCase

\* C27: the classifier answers is_aggregator = True exactly when
\* package-mode is the boolean false or a string equal to "false" in any
\* letter case, and False for an absent key, the boolean true and every
\* other value; the name is the manifest's name, or "unknown" when absent.
C27_AggregatorClassifier ==
    (op = "check_if_aggregator" /\ pc = "returned") =>
        /\ ret.t = "tuple" /\ Len(ret.v) = 2
        /\ ret.v[1].t = "bool"
        /\ ret.v[1].v <=> (args.package_mode.t \in {"bool", "str"}
                             /\ SaysFalse(args.package_mode))
        /\ ret.v[2] = IF args.name = None THEN PyStr(StrUnknown) ELSE args.name
C27_Witness ==
    /\ op = "check_if_aggregator" /\ pc = "returned"
    /\ args.package_mode = PyStr(<<"f", "A", "l", "S", "e">>)
    /\ args.name = None
    /\ ret = PyTuple(<<PyBool(TRUE), PyStr(StrUnknown)>>)

(***************************************************************************)
(* Versions                                                                *)
(***************************************************************************)
BumpRun == op = "bump_version" /\ pc # "start"
\* The reference table, for the current version X.Y.Z (dev = None) or
\* X.Y.Z.devN (dev = PyInt(N)).
BumpTable(x, y, z, dev, bump_type) ==
    CASE bump_type = "major" -> PyStr(FormatDev(x + 1, 0, 0, 1))
      [] bump_type = "minor" -> PyStr(FormatDev(x, y + 1, 0, 1))
      [] bump_type = "patch" ->
            IF dev # None THEN PyStr(FormatDev(x, y, z, dev.v + 1))
            ELSE PyStr(FormatDev(x, y, z + 1, 1))
      [] bump_type = "finalize" ->
            IF dev # None THEN PyStr(FormatFinal(x, y, z))
            ELSE PyRaise("ValueError")
      [] OTHER -> PyRaise("ValueError")

\* C28: bump_version follows the reference table for every X.Y.Z and
\* X.Y.Z.devN: major gives (X+1).0.0.dev1, minor X.(Y+1).0.dev1, patch
\* X.Y.Z.dev(N+1) or X.Y.(Z+1).dev1, finalize X.Y.Z or an error when there
\* is no dev marker; a string that is no version and an unknown bump type
\* raise and give no version.
C28_BumpVersionTable ==
    BumpRun =>
        /\ \A x \in Parts, y \in Parts, z \in Parts :
              /\ args.current_version = FormatFinal(x, y, z) =>
                    ret = BumpTable(x, y, z, None, args.bump_type)
              /\ \A n \in DevNums :
                    args.current_version = FormatDev(x, y, z, n) =>
                        ret = BumpTable(x, y, z, PyInt(n), args.bump_type)
        /\ args.current_version \in NotVersions => ret = PyRaise("ValueError")
        /\ args.bump_type \notin BumpTypes => ret = PyRaise("ValueError")
        /\ pc = "raised" <=> ret.t = "raise"
C28_Witness ==
    /\ BumpRun
    /\ args.current_version = FormatDev(1, 0, 1, 1)
    /\ args.bump_type = "patch"
    /\ ret = PyStr(FormatDev(1, 0, 1, 2))

ValidateVersionRun == op = "validate_new_version_is_not_lower" /\ pc # "start"
\* The strings X.Y.Z and X.Y.Z.devN, read token by token.
Kinds(s) == [i \in 1..Len(s) |-> s[i].k]
IsFinalForm(s) == Kinds(s) = <<"num", "dot", "num", "dot", "num">>
IsDevForm(s) == Kinds(s) = <<"num", "dot", "num", "dot", "num", "dot", "dev", "num">>
IsForm(s) == IsFinalForm(s) \/ IsDevForm(s)
\* The version ordering on these strings: by X, then Y, then Z; a dev
\* release before its final release; dev releases by N.
FormLess(a, b) ==
    \/ a[1].n < b[1].n
    \/ a[1].n = b[1].n /\ a[3].n < b[3].n
    \/ a[1].n = b[1].n /\ a[3].n = b[3].n /\ a[5].n < b[5].n
    \/ /\ a[1].n = b[1].n /\ a[3].n = b[3].n /\ a[5].n = b[5].n
       /\ IsDevForm(a)
       /\ IsFinalForm(b) \/ a[8].n < b[8].n

\* C29: validate_new_version_is_not_lower fails if and only if the target
\* is lower than the current version, a dev release being lower than its
\* final release; it succeeds when the target equals the current version;
\* it fails with the invalid-version error when either string is no version.
C29_ValidateNotLower ==
    ValidateVersionRun =>
        /\ (IsForm(args.current_version) /\ IsForm(args.new_version)) =>
              ret = IF FormLess(args.new_version, args.current_version)
                    THEN DowngradeError ELSE None
        /\ (args.current_version \in NotVersions
              \/ args.new_version \in NotVersions) => ret = InvalidVersionError
        /\ (args.current_version \notin NotVersions
              /\ args.new_version \notin NotVersions) =>
              /\ ret \in {None, DowngradeError}
              /\ args.new_version = args.current_version => ret = None
        /\ pc = "raised" <=> ret # None
C29_Witness ==
    /\ ValidateVersionRun
    /\ args.current_version = FormatFinal(1, 0, 1)
    /\ args.new_version = FormatDev(1, 0, 1, 1)
    /\ ret = DowngradeError

(***************************************************************************)
(* Thresholds                                                              *)
(***************************************************************************)
ThresholdRun == op = "evaluate_threshold" /\ pc # "start"
Operators == {"gt", "ge", "lt", "le", "eq"}
\* The string is "<op>:<limit>" with one of the five operators and a number.
WellFormed(threshold) ==
    /\ Len(threshold) = 3
    /\ threshold[1] \in Operators
    /\ threshold[2] = ":"
    /\ threshold[3] \in {"60", "75"}
LimitOf(threshold) == IF threshold[3] = "60" THEN 60 ELSE 75
Holds(value, operator, limit) ==
    CASE operator = "gt" -> value > limit
      [] operator = "ge" -> value >= limit
      [] operator = "lt" -> value < limit
      [] operator = "le" -> value <= limit
      [] operator = "eq" -> value = limit

\* C30: evaluate_threshold(value, "<op>:<limit>") answers value > limit for
\* gt, >= for ge, < for lt, <= for le and == for eq; every other threshold
\* string, "greater_than:75" among them, is rejected with the format error
\* ("Invalid threshold format") and yields no boolean.
C30_EvaluateThreshold ==
    ThresholdRun =>
        IF WellFormed(args.threshold)
        THEN ret = PyBool(Holds(args.value, args.threshold[1],
                                LimitOf(args.threshold)))
        ELSE ret = FormatError

(***************************************************************************)
(* The analyze stage                                                       *)
(***************************************************************************)
AnalyzeRun == op = "analyze_test_file" /\ pc # "start"
\* The report holds a summary of at least one test and a list of tests.
UsableReport(report) ==
    /\ report.t = "json"
    /\ report.summary # None
    /\ report.tests # <<>>
    /\ report.summary.total # 0
\* The threshold is supplied, well formed, and the percentage misses it.
NotMet(count, total, required) ==
    /\ required # None
    /\ WellFormed(required.v)
    /\ ~Holds((count * 100) \div total, required.v[1], LimitOf(required.v))
NoneOrWellFormed(required) ==
    required = None \/ required.v = <<>> \/ WellFormed(required.v)
\* What run_validate does after the analysis of each possible report.
ValidateAnalyzeOutcomes ==
    ValidateAnalyze([results_json |-> PyStr(args.file_path)], InitExec)

RunCommandRun == op = "run_command" /\ pc # "start"
Logged == cmds[1].arg
Executed == cmds[2].arg

\* C32 as stated: for every command passed to run_command, no argument of
\* the logged command line starts with the secret prefix "pypi-", and the
\* command executed receives the original arguments.
C32_NoPrefixedArgumentLogged ==
    RunCommandRun =>
        /\ \A i \in DOMAIN Logged : ~startswith(Logged[i], "pypi-")
        /\ Executed = args.cmd

\* C32: for every command passed to run_command, each argument that starts
\* with "pypi-" is logged as the mask "pypi-****", which itself starts with
\* the prefix and holds nothing else of the argument; every other argument
\* is logged as it is; and the command executed receives the original
\* arguments, the publish password among them.
C32_SecretsMasked ==
    RunCommandRun =>
        /\ cmds[1].kind = "log" /\ cmds[2].kind = "process"
        /\ DOMAIN Logged = DOMAIN args.cmd
        /\ \A i \in DOMAIN Logged :
              /\ startswith(Logged[i], "pypi-") => Logged[i] = <<"pypi-", "****">>
              /\ ~startswith(args.cmd[i], "pypi-") => Logged[i] = args.cmd[i]
        /\ Executed = args.cmd

\* A publish command whose password is a token has run.
C32_Witness ==
    /\ RunCommandRun
    /\ Len(args.cmd) = 7
    /\ args.cmd[6] = <<"--password">>
    /\ args.cmd[7] = <<"pypi-", "AgEI">>
    /\ Logged[7] = <<"pypi-", "****">>
    /\ Executed[7] = <<"pypi-", "AgEI">>

\* C33: when run_command returns in streaming mode, both readers have
\* reached the end of their stream, the captured stdout is the sequence of
\* lines the process wrote on stdout, in order, and the captured stderr
\* that of stderr.
C33_StreamedOutputCaptured ==
    (op = "run_command" /\ args.stream /\ pc = "returned") =>
        /\ readers.out.at = "eof" /\ readers.err.at = "eof"
        /\ ret.v[2] = args.stdout
        /\ ret.v[3] = args.stderr

(***************************************************************************)
(* Failed discovery                                                        *)
(***************************************************************************)
BoolOps ==
    {"lock_packages", "build_packages", "install_packages", "publish_packages",
     "remote_update_bulk"}
DiscoveringOps == BoolOps \cup {"run_tests_with_mode", "bulk_bump_or_set_version"}
\* The operation has run and its target resolves to no manifest.
DiscoveryFailed ==
    /\ op \in DiscoveringOps
    /\ pc # "start"
    /\ ~find_pyproject_files(args.file, args.directory, args.recursive).ok
ExternalKinds ==
    {"poetry_lock", "poetry_build", "poetry_install", "poetry_publish", "pytest",
     "git_clone", "fetch", "process", "write", "rewrite"}

InstallRun ==
    /\ op = "install_packages"
    /\ pc = "returned"
    /\ find_pyproject_files(args.file, args.directory, args.recursive).ok
InstallDirs == {cmds[i].cwd : i \in {j \in DOMAIN cmds : cmds[j].kind = "poetry_install"}}
InstallTargets ==
    Range(find_pyproject_files(args.file, args.directory, args.recursive).files)

\* C36: install_packages runs no install command in the directory of a
\* manifest with package-mode = false; it installs each local path
\* dependency of that manifest (each one that has a manifest) instead.
C36_AggregatorNotInstalled ==
    InstallRun =>
        \A f \in InstallTargets :
            check_if_aggregator(manifest, f) =>
                /\ Dirname(f) \notin InstallDirs
                /\ \A i \in DOMAIN extract_path_dependencies(manifest, f) :
                      LET dep == AbsPath(Join(Dirname(f),
                                     extract_path_dependencies(manifest, f)[i]))
                      IN  dep \in StaticManifestDirs => dep \in InstallDirs

(***************************************************************************)
(* _test_git_deps and its clone root                                       *)
(***************************************************************************)
TestGitDepsRun == op = "test_git_deps" /\ pc = "returned"
ReturnedRoot == ret.v[2]
UnderTestRoot == {p \in fs : IsPrefix(TestRoot, p)}

TestTargets == find_pyproject_files(args.file, args.directory, args.recursive)
EachOnPackage ==
    /\ op = "run_tests_with_mode"
    /\ pc = "returned"
    /\ args.mode = "each"
    /\ TestTargets.ok
    /\ ~check_if_aggregator(manifest, TestTargets.files[1])
PytestDirs ==
    {AbsPath(cmds[i].cwd) : i \in {j \in DOMAIN cmds : cmds[j].kind = "pytest"}}

\* C37: in mode "each" with a primary manifest that is no aggregator, the
\* directory of every discovered manifest, the package's own among them, has
\* a test invocation of its own, so success = True implies that at least
\* one test invocation was run.
C37_EachDiscoveredManifestTested ==
    EachOnPackage =>
        /\ \A i \in DOMAIN TestTargets.files :
              Dirname(TestTargets.files[i]) \in PytestDirs
        /\ ret.success => PytestDirs # {}

(***************************************************************************)
(* bulk_bump_or_set_version                                                *)
(***************************************************************************)
BulkBumpTargets == find_pyproject_files(args.file, args.directory, args.recursive)
\* A bump or a version to set was asked for and the target resolved.
BulkBumpRun ==
    /\ op = "bulk_bump_or_set_version"
    /\ pc # "start"
    /\ args.bump # None \/ args.set_ver # None
    /\ BulkBumpTargets.ok
IsVersionText(content) == content.t = "str"
\* The version asked for a manifest that holds the version text cur.
Wanted(cur) ==
    IF args.bump # None THEN bump_version(cur.v, args.bump.v) ELSE args.set_ver
\* Reading, bumping, the downgrade check or the write fails for pyproj.
FailsOn(pyproj) ==
    LET cur == args.versions[pyproj] IN
    \/ ~IsVersionText(cur)
    \/ Wanted(cur).t = "raise"
    \/ validate_new_version_is_not_lower(cur.v, Wanted(cur).v).t = "raise"
    \/ pyproj \in args.readonly
FirstFailure ==
    LET files == BulkBumpTargets.files
        failing == {i \in DOMAIN files : FailsOn(files[i])}
    IN  IF failing = {} THEN Len(files) + 1
        ELSE CHOOSE i \in failing : \A j \in failing : i <= j

\* C38: bulk_bump_or_set_version takes the manifests in resolver order; the
\* first one whose read, bump or downgrade check (or write) fails ends the
\* batch with the error, that manifest and all later ones keep the version
\* they had, the manifests before it hold their new version, and manifests
\* that are no target are untouched.
C38_BatchAbortsWithoutRollback ==
    BulkBumpRun =>
        LET files == BulkBumpTargets.files IN
        /\ pc = "raised" <=> FirstFailure <= Len(files)
        /\ DOMAIN fs = DOMAIN args.versions
        /\ \A i \in DOMAIN files :
              IF i < FirstFailure
              THEN fs[files[i]] = PyStr(Wanted(args.versions[files[i]]).v)
              ELSE fs[files[i]] = args.versions[files[i]]
        /\ \A p \in DOMAIN fs : p \notin Range(files) => fs[p] = args.versions[p]

\* The batch stopped at a later manifest after changing the first one.
C38_Witness ==
    /\ BulkBumpRun
    /\ pc = "raised"
    /\ FirstFailure > 1
    /\ FirstFailure < Len(BulkBumpTargets.files)
    /\ fs[BulkBumpTargets.files[1]] # args.versions[BulkBumpTargets.files[1]]
    /\ args.bump = PyStr("patch")

(***************************************************************************)
(* Chains of bumps                                                         *)
(***************************************************************************)
BumpChainRun == op = "bump_chain" /\ cmds # <<>>
Link(i) == cmds[i].arg

\* C39: for every version X.Y.Z or X.Y.Z.devN, a bump that succeeds (major,
\* minor and patch always do, finalize on a dev release) gives a version
\* X.Y.Z or X.Y.Z.devN that is strictly greater, the downgrade check applied
\* after it passes, and each version of a chain of bumps is strictly greater
\* than every version before it.
C39_BumpsIncrease ==
    BumpChainRun =>
        /\ \A i \in DOMAIN cmds :
              /\ IsForm(Link(i).current_ver)
              /\ Link(i).new_ver.t = "raise" <=>
                    (Link(i).bump_type = "finalize"
                       /\ IsFinalForm(Link(i).current_ver))
              /\ Link(i).new_ver.t # "raise" =>
                    /\ IsForm(Link(i).new_ver.v)
                    /\ FormLess(Link(i).current_ver, Link(i).new_ver.v)
                    /\ VersionLess(Version(Link(i).current_ver),
                                   Version(Link(i).new_ver.v))
                    /\ Link(i).checked = None
        /\ \A i \in DOMAIN cmds : \A j \in DOMAIN cmds :
              (i <= j /\ Link(j).new_ver.t # "raise") =>
                  FormLess(Link(i).current_ver, Link(j).new_ver.v)

\* A chain of three bumps that ends with a finalize.
C39_Witness ==
    /\ BumpChainRun
    /\ Len(cmds) = 3
    /\ pc = "returned"
    /\ Link(1).bump_type = "patch" /\ IsDevForm(Link(1).current_ver)
    /\ Link(2).bump_type = "minor"
    /\ Link(3).bump_type = "finalize"

====
